---- MODULE Spec2Model ----
(***************************************************************************)
(* A model of the TKDojang content-correction scripts:                     *)
(*   - Scripts/fix-title-case.py            (Text Normalizer)              *)
(*   - Scripts/standardize_language_properties.py (Schema Migrator and     *)
(*     Document Type Detector)                                             *)
(*   - Scripts/chon_ji_dan_gun_corrections.py (Technique/Target Decomposer)*)
(*   - Scripts/update_patterns_from_csv.py  (Correction Table Applier)     *)
(* Python strings are TLA+ strings, handled character by character with    *)
(* Len, SubSeq and \o.  JSON values are tagged pairs: <<"str", s>>,        *)
(* <<"num", n>>, <<"bool", b>>, <<"null", 0>>, <<"list", seq>> and         *)
(* <<"dict", pairs>>, a dict being the sequence of its <<key, value>>      *)
(* pairs in insertion order, as Python keeps them.                         *)
(***************************************************************************)
EXTENDS Integers, Sequences, FiniteSets, TLC

VARIABLES
    \* ---- Text Normalizer (fix-title-case.py)
    text,        \* the string the normalizer holds
    prev,        \* the string before the last application of to_title_case
    runs,        \* how many times to_title_case has been applied
    \* ---- LanguagePropertyStandardizer (standardize_language_properties.py)
    dry_run,     \* self.dry_run
    verbose,     \* self.verbose
    stats,       \* self.stats: properties_renamed, empty_fields_removed, files_written, files_analyzed
    changes_log, \* self.changes_log
    subject,     \* what the standardizer is applied to: a mapping or a file type
    data,        \* the parsed JSON value in memory
    before,      \* that value before the last call
    last,        \* the outcome of the last call
    calls,       \* how many calls have been made on data
    file_path,   \* the path handed to detect_file_type
    detections,  \* what detect_file_type returned for file_path, call after call
    files,       \* the store: the content of the file at each path
    initial,     \* the store as the run found it
    json_files,  \* process_all: the sorted list of the files found
    results,     \* process_all: one entry per file processed
    written,     \* the paths of the writes issued, in order
    summary,     \* process_all: the summary it prints
    pc,          \* process_all: where it stands
    \* ---- ChonJiDanGunCorrector and PatternUpdater
    corrections, \* PatternUpdater.corrections
    updates_applied,     \* PatternUpdater.updates_applied
    patterns_updated,    \* PatternUpdater.patterns_updated
    corrections_applied, \* ChonJiDanGunCorrector.corrections_applied
    stages,      \* the correction stages run so far, each with what it did
    move_technique, \* _split_technique_target: the technique it is called with
    move_target, \* _split_technique_target: the current_target it is called with
    splits,      \* what _split_technique_target returned, call after call
    \* ---- main() of update_patterns_from_csv.py
    csv_file,    \* the rows csv.DictReader yields from the correction table
    run,         \* main: where it stands
    report,      \* what generate_report printed
    \* ---- TestCodingKeysUpdater
    tests_dry_run,  \* TestCodingKeysUpdater.dry_run
    test_files,     \* the Swift files of the tests directory: name -> text
    test_initial,   \* the Swift files before the run
    test_written,   \* the names update_file opened for writing, in order
    test_stats,     \* TestCodingKeysUpdater.stats
    test_results,   \* what update_file returned, call after call
    \* ---- PatternUpdater.standardize_values on its own
    a_row,          \* the row of the table the correction was loaded from
    a_correction,   \* the correction it is called with
    standardized    \* what it returned, call after call

normVars == <<text, prev, runs>>
stdVars == <<dry_run, verbose, stats, changes_log>>
memVars == <<subject, data, before, last, calls>>
detVars == <<file_path, detections>>
batchVars == <<files, initial, json_files, results, written, summary, pc>>
pipeVars == <<corrections, updates_applied, patterns_updated, corrections_applied, stages>>
splitVars == <<move_technique, move_target, splits>>
csvVars == <<csv_file, run, report>>
testVars == <<tests_dry_run, test_files, test_initial, test_written, test_stats, test_results>>
valVars == <<a_row, a_correction, standardized>>
vars == <<normVars, stdVars, memVars, detVars, batchVars, pipeVars, splitVars, csvVars,
          testVars, valVars>>

(***************************************************************************)
(* Bounds of the model.                                                    *)
(***************************************************************************)
MaxLen == 4
MaxKeys == 2
MaxItems == 2
MaxDepth == 2
MaxFiles == 3
MaxMoves == 1
MaxStages == 2
MaxRows == 2
MaxCalls == 2
MaxLines == 2

(***************************************************************************)
(* Python string primitives.                                               *)
(***************************************************************************)
LowerChars == "abcdefghijklmnopqrstuvwxyz"
UpperChars == "ABCDEFGHIJKLMNOPQRSTUVWXYZ"
DigitChars == "0123456789"

Ch(s, i) == SubSeq(s, i, i)

\* a sequence given as a function on 1..n, as the tuple of its values
Tuple(f) == f \o <<>>

\* str.find(c) + 1: the 1-based index of the first occurrence of c in s, 0 if none
Find(s, c) ==
    IF \E i \in 1..Len(s) : Ch(s, i) = c
    THEN CHOOSE i \in 1..Len(s) : Ch(s, i) = c /\ \A j \in 1..(i-1) : Ch(s, j) # c
    ELSE 0

\* c in s, for a single character c
Contains(s, c) == Find(s, c) > 0

LowerCh(c) == IF Contains(UpperChars, c) THEN Ch(LowerChars, Find(UpperChars, c)) ELSE c
UpperCh(c) == IF Contains(LowerChars, c) THEN Ch(UpperChars, Find(LowerChars, c)) ELSE c
IsUpperCh(c) == Contains(UpperChars, c)

\* regex \w
IsWordCh(c) == Contains(LowerChars, c) \/ Contains(UpperChars, c) \/ Contains(DigitChars, c) \/ c = "_"
\* what str.split() splits on
IsSpace(c) == c \in {" ", "\t", "\n"}

RECURSIVE Lower(_)
Lower(s) == IF s = "" THEN "" ELSE LowerCh(Ch(s, 1)) \o Lower(SubSeq(s, 2, Len(s)))

\* str.capitalize(): first character upper-cased, the rest lower-cased
Capitalize(s) == IF s = "" THEN "" ELSE UpperCh(Ch(s, 1)) \o Lower(SubSeq(s, 2, Len(s)))

\* the end of the maximal run of characters satisfying \w that starts at i
RECURSIVE RunEnd(_, _)
RunEnd(s, i) == IF i < Len(s) /\ IsWordCh(Ch(s, i + 1)) THEN RunEnd(s, i + 1) ELSE i

\* str.split(): the maximal runs of non-whitespace characters, in order
RECURSIVE SplitFrom(_, _, _)
SplitFrom(s, i, cur) ==
    IF i > Len(s) THEN (IF cur = "" THEN <<>> ELSE <<cur>>)
    ELSE IF IsSpace(Ch(s, i))
         THEN (IF cur = "" THEN <<>> ELSE <<cur>>) \o SplitFrom(s, i + 1, "")
         ELSE SplitFrom(s, i + 1, cur \o Ch(s, i))

Split(s) == SplitFrom(s, 1, "")

\* ' '.join(words)
RECURSIVE Join(_)
Join(words) ==
    IF Len(words) = 0 THEN ""
    ELSE IF Len(words) = 1 THEN words[1]
    ELSE words[1] \o " " \o Join(Tail(words))

(***************************************************************************)
(* fix-title-case.py: to_title_case                                        *)
(***************************************************************************)
small_words == {"of", "the", "a", "an", "and", "or", "to", "in", "with"}

\* title_case_hyphenated on one match run1-run2 of \b[\w]+-[\w]+\b
title_case_hyphenated(run1, run2) == Capitalize(run1) \o "-" \o Capitalize(run2)

\* re.sub(r'\b[\w]+-[\w]+\b', title_case_hyphenated, text), scanning from i:
\* a match starts where a maximal \w run starts, and is that run, one '-',
\* and the maximal \w run after it; matches do not overlap.
RECURSIVE HyphenPassFrom(_, _)
HyphenPassFrom(s, i) ==
    IF i > Len(s) THEN ""
    ELSE IF IsWordCh(Ch(s, i)) /\ (i = 1 \/ ~IsWordCh(Ch(s, i - 1)))
         THEN LET e1 == RunEnd(s, i) IN
              IF e1 + 2 <= Len(s) /\ Ch(s, e1 + 1) = "-" /\ IsWordCh(Ch(s, e1 + 2))
              THEN LET e2 == RunEnd(s, e1 + 2) IN
                   title_case_hyphenated(SubSeq(s, i, e1), SubSeq(s, e1 + 2, e2))
                       \o HyphenPassFrom(s, e2 + 1)
              ELSE Ch(s, i) \o HyphenPassFrom(s, i + 1)
         ELSE Ch(s, i) \o HyphenPassFrom(s, i + 1)

HyphenPass(s) == HyphenPassFrom(s, 1)

\* the parenthetical branch of the per-word loop (lines 50-57)
ParenWord(word) ==
    LET o == Find(word, "(")
        c == Find(word, ")")
        before_paren == SubSeq(word, 1, o - 1)
        in_paren == IF o + 1 <= c - 1 THEN SubSeq(word, o + 1, c - 1) ELSE ""
        after_paren == IF c < Len(word) THEN SubSeq(word, c + 1, Len(word)) ELSE ""
    IN Capitalize(before_paren) \o "(" \o Lower(in_paren) \o ")" \o after_paren

\* the per-word loop with the small-word branch tried before the first-word one
TitleWordSmallFirst(i, word) ==
    IF Contains(word, "(") /\ Contains(word, ")") THEN ParenWord(word)
    ELSE IF Lower(word) \in small_words THEN Lower(word)
    ELSE IF i = 1 THEN (IF ~Contains(word, "-") THEN Capitalize(word) ELSE word)
    ELSE IF Contains(word, "-") \/ IsUpperCh(Ch(word, 1)) THEN word
    ELSE Capitalize(word)

\* the body of the per-word loop (lines 48-71); i is the 1-based position
TitleWord(i, word) ==
    IF Contains(word, "(") /\ Contains(word, ")") THEN ParenWord(word)
    ELSE IF i = 1 THEN (IF ~Contains(word, "-") THEN Capitalize(word) ELSE word)
    ELSE IF Lower(word) \in small_words THEN Lower(word)
    ELSE IF Contains(word, "-") \/ IsUpperCh(Ch(word, 1)) THEN word
    ELSE Capitalize(word)

to_title_case(t) ==
    IF t = "" THEN t
    ELSE LET t1 == HyphenPass(t)
             words == Split(t1)
         IN IF Len(words) = 0 THEN t1
            ELSE Join(Tuple([i \in 1..Len(words) |-> TitleWord(i, words[i])]))

(***************************************************************************)
(* The normalizer as a state machine: a string is drawn, and to_title_case *)
(* is applied to it again and again (the pipeline re-runs over content it  *)
(* has already normalized).                                                *)
(***************************************************************************)
Alphabet == {"a", "A", "b", "(", ")", "-", " "}

RECURSIVE Strings(_)
Strings(n) ==
    IF n = 0 THEN {""}
    ELSE LET shorter == Strings(n - 1) IN
         shorter \cup {s \o c : s \in shorter, c \in Alphabet}

(***************************************************************************)
(* JSON values and Python dict operations.                                 *)
(***************************************************************************)
Str(s) == <<"str", s>>
Num(n) == <<"num", n>>
Bool(b) == <<"bool", b>>
Null == <<"null", 0>>
List(items) == <<"list", items>>
Dict(pairs) == <<"dict", pairs>>

Tag(j) == j[1]
Val(j) == j[2]

\* bool(value) for a parsed JSON value
Truthy(j) ==
    CASE Tag(j) = "str" -> Val(j) # ""
      [] Tag(j) = "num" -> Val(j) # 0
      [] Tag(j) = "bool" -> Val(j)
      [] Tag(j) = "null" -> FALSE
      [] Tag(j) = "list" -> Len(Val(j)) > 0
      [] Tag(j) = "dict" -> Len(Val(j)) > 0

\* key in d, d[key], d[key] = v and del d[key] on the pairs of a dict
HasKey(pairs, k) == \E i \in 1..Len(pairs) : pairs[i][1] = k
KeyIndex(pairs, k) == CHOOSE i \in 1..Len(pairs) : pairs[i][1] = k
GetKey(pairs, k) == pairs[KeyIndex(pairs, k)][2]
SetKey(pairs, k, v) ==
    IF HasKey(pairs, k) THEN [pairs EXCEPT ![KeyIndex(pairs, k)] = <<k, v>>]
    ELSE Append(pairs, <<k, v>>)
\* del d[key] that removes the pair before the one asked for (an off-by-one)
DelKeyOffByOne(pairs, k) ==
    LET n == IF KeyIndex(pairs, k) > 1 THEN KeyIndex(pairs, k) - 1 ELSE 1 IN
    Tuple([i \in 1..(Len(pairs) - 1) |-> IF i < n THEN pairs[i] ELSE pairs[i + 1]])
DelKey(pairs, k) ==
    LET n == KeyIndex(pairs, k) IN
    Tuple([i \in 1..(Len(pairs) - 1) |-> IF i < n THEN pairs[i] ELSE pairs[i + 1]])
\* d.get(key, default)
GetOr(pairs, k, default) == IF HasKey(pairs, k) THEN GetKey(pairs, k) ELSE default

\* needle in hay, for two Python strings
Substring(needle, hay) ==
    \E i \in 1..(Len(hay) - Len(needle) + 1) : SubSeq(hay, i, i + Len(needle) - 1) = needle

\* key in obj, for any parsed JSON value obj that supports the test
KeyIn(obj, k) ==
    CASE Tag(obj) = "dict" -> HasKey(Val(obj), k)
      [] Tag(obj) = "list" -> \E i \in 1..Len(Val(obj)) : Val(obj)[i] = Str(k)
      [] Tag(obj) = "str" -> Substring(k, Val(obj))
      [] OTHER -> FALSE
\* key in obj raises TypeError on a number, a boolean and None
KeyInRaises(obj) == Tag(obj) \in {"num", "bool", "null"}

RECURSIVE SumSeq(_)
SumSeq(s) == IF Len(s) = 0 THEN 0 ELSE s[1] + SumSeq(Tail(s))
RECURSIVE ConcatSeq(_)
ConcatSeq(s) == IF Len(s) = 0 THEN <<>> ELSE s[1] \o ConcatSeq(Tail(s))

(***************************************************************************)
(* standardize_language_properties.py                                      *)
(* Every operation on a document returns an outcome                        *)
(*   [doc, renamed, removed, log, raised]:                                *)
(* the document as mutated in memory, the increments of                    *)
(* stats['properties_renamed'] and stats['empty_fields_removed'], the      *)
(* entries appended to changes_log, and whether an exception was raised    *)
(* (everything counted before the raise stays counted).                    *)
(***************************************************************************)
Outcome(d, rn, rm, lg, ex) == [data |-> d, renamed |-> rn, removed |-> rm, log |-> lg, raised |-> ex]
Untouched(d) == Outcome(d, 0, 0, <<>>, FALSE)
Raised(d) == Outcome(d, 0, 0, <<>>, TRUE)

terminology_mapping == << <<"english_term", "english">>, <<"romanized_pronunciation", "romanised">>,
                          <<"korean_hangul", "hangul">>, <<"phonetic_pronunciation", "phonetic">> >>
techniques_mapping == << <<"korean_romanized", "romanised">>, <<"korean", "hangul">>,
                         <<"korean_hangul", "hangul">> >>
pattern_mapping == << <<"name", "english">>, <<"pronunciation", "romanised">> >>
move_mapping == << <<"technique", "english">>, <<"korean_technique", "romanised">> >>
action_mapping == << <<"technique", "english">>, <<"korean_name", "romanised">> >>
theory_mapping == << <<"name", "english">>, <<"korean", "romanised">> >>
vocabulary_mapping == << <<"romanized", "romanised">> >>

\* first loop of _rename_keys (lines 160-172) from mapping entry i on:
\* st = [obj, keys_to_rename, removed, log]
RECURSIVE RenameScan(_, _, _, _)
RenameScan(st, mapping, i, vb) ==
    IF i > Len(mapping) THEN st
    ELSE LET old_key == mapping[i][1]
             new_key == mapping[i][2]
         IN IF ~HasKey(st.obj, old_key) THEN RenameScan(st, mapping, i + 1, vb)
            ELSE LET value == GetKey(st.obj, old_key) IN
                 IF Truthy(value)
                 THEN RenameScan([st EXCEPT !.keys_to_rename = Append(@, <<old_key, new_key, value>>)],
                                 mapping, i + 1, vb)
                 ELSE RenameScan([st EXCEPT !.obj = DelKey(@, old_key),
                                            !.removed = @ + 1,
                                            !.log = IF vb
                                                    THEN Append(@, [kind |-> "removed", context |-> "",
                                                                    old_key |-> old_key, new_key |-> ""])
                                                    ELSE @],
                                 mapping, i + 1, vb)

\* the second loop without its `del obj[old_key]`: the value is copied, not moved
RECURSIVE RenameApplyKeepOld(_, _, _)
RenameApplyKeepOld(st, i, vb) ==
    IF i > Len(st.keys_to_rename) THEN st
    ELSE LET old_key == st.keys_to_rename[i][1]
             new_key == st.keys_to_rename[i][2]
             value == st.keys_to_rename[i][3]
         IN IF old_key # new_key
            THEN RenameApplyKeepOld([st EXCEPT !.obj = SetKey(@, new_key, value),
                                               !.renamed = @ + 1],
                                    i + 1, vb)
            ELSE RenameApplyKeepOld(st, i + 1, vb)

\* second loop of _rename_keys (lines 175-181) from entry i of keys_to_rename on
RECURSIVE RenameApply(_, _, _)
RenameApply(st, i, vb) ==
    IF i > Len(st.keys_to_rename) THEN st
    ELSE LET old_key == st.keys_to_rename[i][1]
             new_key == st.keys_to_rename[i][2]
             value == st.keys_to_rename[i][3]
         IN IF old_key # new_key
            THEN RenameApply([st EXCEPT !.obj = DelKey(SetKey(@, new_key, value), old_key),
                                        !.renamed = @ + 1,
                                        !.log = IF vb
                                                THEN Append(@, [kind |-> "renamed", context |-> "",
                                                                old_key |-> old_key, new_key |-> new_key])
                                                ELSE @],
                             i + 1, vb)
            ELSE RenameApply(st, i + 1, vb)

\* _rename_keys on the pairs of a dict
RenamePairs(pairs, mapping, vb) ==
    RenameApply(RenameScan([obj |-> pairs, keys_to_rename |-> <<>>, removed |-> 0,
                            renamed |-> 0, log |-> <<>>], mapping, 1, vb),
                1, vb)

\* _rename_keys(obj, mapping) on any parsed JSON value: on a list or a string
\* the test `old_key in obj` is a membership or substring test, and obj[old_key]
\* raises TypeError when it succeeds; on a number, boolean or None the test raises.
_rename_keys(obj, mapping, vb) ==
    IF Tag(obj) = "dict"
    THEN LET st == RenamePairs(Val(obj), mapping, vb) IN
         Outcome(Dict(st.obj), st.renamed, st.removed, st.log, FALSE)
    ELSE IF KeyInRaises(obj) \/ \E i \in 1..Len(mapping) : KeyIn(obj, mapping[i][1])
         THEN Raised(obj)
         ELSE Untouched(obj)

\* the outcome of a loop `for item in items: f(item)`, given each item's own
\* outcome rs[i]: the loop stops at the first item that raises
Aggregate(items, outcomes) ==
    LET n == Len(items)
        rs == Tuple(outcomes)
        stop == IF \E i \in 1..n : rs[i].raised
                THEN CHOOSE i \in 1..n : rs[i].raised /\ \A j \in 1..(i - 1) : ~rs[j].raised
                ELSE n
    IN Outcome(Tuple([i \in 1..n |-> IF i <= stop THEN rs[i].data ELSE items[i]]),
               SumSeq(Tuple([i \in 1..stop |-> rs[i].renamed])),
               SumSeq(Tuple([i \in 1..stop |-> rs[i].removed])),
               ConcatSeq(Tuple([i \in 1..stop |-> rs[i].log])),
               \E i \in 1..n : rs[i].raised)

\* what `for x in value` iterates over; a number, boolean or None raises
Iterable(j) == Tag(j) \in {"list", "dict", "str"}
Items(j) ==
    CASE Tag(j) = "list" -> Val(j)
      [] Tag(j) = "dict" -> Tuple([i \in 1..Len(Val(j)) |-> Str(Val(j)[i][1])])
      [] Tag(j) = "str" -> Tuple([i \in 1..Len(Val(j)) |-> Str(Ch(Val(j), i))])

\* two outcomes one after the other on the same value
Then(a, b) == Outcome(b.data, a.renamed + b.renamed, a.removed + b.removed, a.log \o b.log, b.raised)

\* `for item in container: self._rename_keys(item, mapping)`; a list is mutated
\* through its items, the keys of a dict and the characters of a string are not
RenameItems(container, mapping, vb) ==
    IF ~Iterable(container) THEN Raised(container)
    ELSE LET items == Items(container)
             agg == Aggregate(items, [i \in 1..Len(items) |-> _rename_keys(items[i], mapping, vb)])
         IN Outcome(IF Tag(container) = "list" THEN List(agg.data) ELSE container,
                    agg.renamed, agg.removed, agg.log, agg.raised)

\* doc[key] replaced by the outcome of an operation on it
Within(doc, key, out) ==
    Outcome(Dict(SetKey(Val(doc), key, out.data)), out.renamed, out.removed, out.log, out.raised)

\* `if key in doc:` on the top-level value: FALSE / TRUE, or raising
Guard(doc, key) ==
    IF KeyInRaises(doc) THEN "raise"
    ELSE IF ~KeyIn(doc, key) THEN "skip"
    ELSE IF Tag(doc) # "dict" THEN "raise"
    ELSE "enter"

standardize_terminology(doc, vb) ==
    CASE Guard(doc, "terminology") = "raise" -> Raised(doc)
      [] Guard(doc, "terminology") = "skip" -> Untouched(doc)
      [] OTHER -> Within(doc, "terminology",
                         RenameItems(GetKey(Val(doc), "terminology"), terminology_mapping, vb))

\* the body of the loop over doc['techniques'] (lines 59-60)
TechniqueItem(technique, vb) ==
    CASE Guard(technique, "names") = "raise" -> Raised(technique)
      [] Guard(technique, "names") = "skip" -> Untouched(technique)
      [] OTHER -> Within(technique, "names",
                         _rename_keys(GetKey(Val(technique), "names"), techniques_mapping, vb))

\* `for item in doc[key]: body(item)` given each item's outcome
Loop(container, rs) ==
    LET agg == Aggregate(Items(container), rs) IN
    Outcome(IF Tag(container) = "list" THEN List(agg.data) ELSE container,
            agg.renamed, agg.removed, agg.log, agg.raised)

standardize_techniques(doc, vb) ==
    CASE Guard(doc, "techniques") = "raise" -> Raised(doc)
      [] Guard(doc, "techniques") = "skip" -> Untouched(doc)
      [] OTHER ->
           LET c == GetKey(Val(doc), "techniques") IN
           IF ~Iterable(c) THEN Raised(doc)
           ELSE Within(doc, "techniques",
                       Loop(c, [i \in 1..Len(Items(c)) |-> TechniqueItem(Items(c)[i], vb)]))

standardize_linework(doc, vb) == Untouched(doc)

\* the body of the loop over doc['patterns'] (lines 75-90)
PatternItem(pattern, vb) ==
    LET first == _rename_keys(pattern, pattern_mapping, vb) IN
    IF first.raised THEN first
    ELSE CASE Guard(first.data, "moves") = "raise" -> Then(first, Raised(first.data))
           [] Guard(first.data, "moves") = "skip" -> first
           [] OTHER -> Then(first, Within(first.data, "moves",
                                          RenameItems(GetKey(Val(first.data), "moves"),
                                                      move_mapping, vb)))

standardize_patterns(doc, vb) ==
    CASE Guard(doc, "patterns") = "raise" -> Raised(doc)
      [] Guard(doc, "patterns") = "skip" -> Untouched(doc)
      [] OTHER ->
           LET c == GetKey(Val(doc), "patterns") IN
           IF ~Iterable(c) THEN Raised(doc)
           ELSE Within(doc, "patterns",
                       Loop(c, [i \in 1..Len(Items(c)) |-> PatternItem(Items(c)[i], vb)]))

\* one action type of the loop over ['attack', 'defense', 'counter'] (lines 106-108),
\* after the outcome cur of the action types before it
StepAction(cur, action_type, vb) ==
    IF cur.raised THEN cur
    ELSE CASE Guard(cur.data, action_type) = "raise" -> Then(cur, Raised(cur.data))
           [] Guard(cur.data, action_type) = "skip" -> cur
           [] OTHER ->
                IF Truthy(GetKey(Val(cur.data), action_type))
                THEN Then(cur, Within(cur.data, action_type,
                                      _rename_keys(GetKey(Val(cur.data), action_type),
                                                   action_mapping, vb)))
                ELSE cur

\* the body of the loop over sequence['steps'] (lines 105-108)
StepItem(step, vb) ==
    StepAction(StepAction(StepAction(Untouched(step), "attack", vb), "defense", vb),
               "counter", vb)

\* the body of the loop over doc['sequences'] (lines 103-108)
SequenceItem(sequence, vb) ==
    CASE Guard(sequence, "steps") = "raise" -> Raised(sequence)
      [] Guard(sequence, "steps") = "skip" -> Untouched(sequence)
      [] OTHER ->
           LET c == GetKey(Val(sequence), "steps") IN
           IF ~Iterable(c) THEN Raised(sequence)
           ELSE Within(sequence, "steps",
                       Loop(c, [i \in 1..Len(Items(c)) |-> StepItem(Items(c)[i], vb)]))

standardize_stepsparring(doc, vb) ==
    CASE Guard(doc, "sequences") = "raise" -> Raised(doc)
      [] Guard(doc, "sequences") = "skip" -> Untouched(doc)
      [] OTHER ->
           LET c == GetKey(Val(doc), "sequences") IN
           IF ~Iterable(c) THEN Raised(doc)
           ELSE Within(doc, "sequences",
                       Loop(c, [i \in 1..Len(Items(c)) |-> SequenceItem(Items(c)[i], vb)]))

\* `if key in content: for x in content[key]: self._rename_keys(x, mapping)`
\* (lines 127-129 and 132-134), after the outcome cur
ContentList(cur, key, vb) ==
    IF cur.raised THEN cur
    ELSE CASE Guard(cur.data, key) = "raise" -> Then(cur, Raised(cur.data))
           [] Guard(cur.data, key) = "skip" -> cur
           [] OTHER -> Then(cur, Within(cur.data, key,
                                        RenameItems(GetKey(Val(cur.data), key), theory_mapping, vb)))

\* `for item in value: if isinstance(item, dict): self._rename_keys(item, mapping)`
RenameDictItems(value, vb) ==
    LET items == Val(value)
        agg == Aggregate(items, [i \in 1..Len(items) |->
                                    IF Tag(items[i]) = "dict"
                                    THEN _rename_keys(items[i], theory_mapping, vb)
                                    ELSE Untouched(items[i])])
    IN Outcome(List(agg.data), agg.renamed, agg.removed, agg.log, agg.raised)

\* `for key, value in content.items(): if isinstance(value, list): ...` (lines 137-141);
\* content.items() raises AttributeError unless content is a dict
ContentItems(cur, vb) ==
    IF cur.raised THEN cur
    ELSE IF Tag(cur.data) # "dict" THEN Then(cur, Raised(cur.data))
    ELSE LET pairs == Val(cur.data)
             vals == Tuple([i \in 1..Len(pairs) |-> pairs[i][2]])
             agg == Aggregate(vals, [i \in 1..Len(pairs) |->
                                        IF Tag(vals[i]) = "list"
                                        THEN RenameDictItems(vals[i], vb)
                                        ELSE Untouched(vals[i])])
         IN Then(cur, Outcome(Dict(Tuple([i \in 1..Len(pairs) |-> <<pairs[i][1], agg.data[i]>>])),
                              agg.renamed, agg.removed, agg.log, agg.raised))

\* the body of the loop over doc['theory_sections'] (lines 123-141)
SectionItem(section, vb) ==
    CASE Guard(section, "content") = "raise" -> Raised(section)
      [] Guard(section, "content") = "skip" -> Untouched(section)
      [] OTHER ->
           LET content == GetKey(Val(section), "content") IN
           Within(section, "content",
                  ContentItems(ContentList(ContentList(Untouched(content), "tenets", vb),
                                           "greeting_terms", vb),
                               vb))

standardize_theory(doc, vb) ==
    CASE Guard(doc, "theory_sections") = "raise" -> Raised(doc)
      [] Guard(doc, "theory_sections") = "skip" -> Untouched(doc)
      [] OTHER ->
           LET c == GetKey(Val(doc), "theory_sections") IN
           IF ~Iterable(c) THEN Raised(doc)
           ELSE Within(doc, "theory_sections",
                       Loop(c, [i \in 1..Len(Items(c)) |-> SectionItem(Items(c)[i], vb)]))

standardize_vocabulary(doc, vb) ==
    CASE Guard(doc, "words") = "raise" -> Raised(doc)
      [] Guard(doc, "words") = "skip" -> Untouched(doc)
      [] OTHER -> Within(doc, "words",
                         RenameItems(GetKey(Val(doc), "words"), vocabulary_mapping, vb))

\* detect_file_type: the first of the chain of substring tests that succeeds
\* detect_file_type with its tests in the reverse order
detect_file_type_reversed(path_str) ==
    IF Substring("/VocabularyBuilder/", path_str) THEN "vocabulary"
    ELSE IF Substring("/Theory/", path_str) THEN "theory"
    ELSE IF Substring("/StepSparring/", path_str) THEN "stepsparring"
    ELSE IF Substring("/Patterns/", path_str) THEN "patterns"
    ELSE IF Substring("/LineWork/", path_str) THEN "linework"
    ELSE IF Substring("/Techniques/", path_str) THEN "techniques"
    ELSE IF Substring("/Terminology/", path_str) THEN "terminology"
    ELSE "unknown"

detect_file_type(path_str) ==
    IF Substring("/Terminology/", path_str) THEN "terminology"
    ELSE IF Substring("/Techniques/", path_str) THEN "techniques"
    ELSE IF Substring("/LineWork/", path_str) THEN "linework"
    ELSE IF Substring("/Patterns/", path_str) THEN "patterns"
    ELSE IF Substring("/StepSparring/", path_str) THEN "stepsparring"
    ELSE IF Substring("/Theory/", path_str) THEN "theory"
    ELSE IF Substring("/VocabularyBuilder/", path_str) THEN "vocabulary"
    ELSE "unknown"

\* the dispatch of process_file (lines 222-237) on a known file type
Standardize(file_type, doc, vb) ==
    CASE file_type = "terminology" -> standardize_terminology(doc, vb)
      [] file_type = "techniques" -> standardize_techniques(doc, vb)
      [] file_type = "linework" -> standardize_linework(doc, vb)
      [] file_type = "patterns" -> standardize_patterns(doc, vb)
      [] file_type = "stepsparring" -> standardize_stepsparring(doc, vb)
      [] file_type = "theory" -> standardize_theory(doc, vb)
      [] file_type = "vocabulary" -> standardize_vocabulary(doc, vb)

(***************************************************************************)
(* Files.  The content of a file is what json.load makes of it (it raises  *)
(* when the text is not JSON) and the layout of its text; json.dump writes *)
(* the document in a layout of its own.                                    *)
(***************************************************************************)
File(doc) == [parses |-> TRUE, doc |-> doc, layout |-> "original"]
Unparsable == [parses |-> FALSE, doc |-> Null, layout |-> "original"]
\* json.dump(data, f, indent=2, ensure_ascii=False) and the trailing newline
json_dump_newline(doc) == [parses |-> TRUE, doc |-> doc, layout |-> "indent2+newline"]

\* what process_file returns and does: (success, message), the counts and
\* log entries added to self.stats and self.changes_log, the data in memory
\* and whether the file is written
FileResult(ok, msg, out, wr) ==
    [success |-> ok, message |-> msg, renamed |-> out.renamed, removed |-> out.removed,
     log |-> out.log, data |-> out.data, write |-> wr]

\* the end of process_file (lines 239-254), after the standardize_* call
Report(file_type, out, dry) ==
    IF out.raised THEN FileResult(FALSE, <<"Error">>, out, FALSE)
    ELSE FileResult(TRUE, <<"ok", file_type, out.renamed>>, out, ~dry)

\* process_file reporting success where json.load raises
process_file_lenient(content, path_str, dry, vb) ==
    IF ~content.parses THEN FileResult(TRUE, <<"ok", "unknown", 0>>, Untouched(Null), FALSE)
    ELSE IF detect_file_type(path_str) = "unknown"
    THEN FileResult(FALSE, <<"Unknown file type", "unknown">>, Untouched(content.doc), FALSE)
    ELSE Report(detect_file_type(path_str),
                Standardize(detect_file_type(path_str), content.doc, vb), dry)

\* process_file dispatching an unknown type to standardize_terminology
process_file_any_type(content, path_str, dry, vb) ==
    IF ~content.parses THEN FileResult(FALSE, <<"Error">>, Untouched(Null), FALSE)
    ELSE IF detect_file_type(path_str) = "unknown"
    THEN Report("unknown", standardize_terminology(content.doc, vb), dry)
    ELSE Report(detect_file_type(path_str),
                Standardize(detect_file_type(path_str), content.doc, vb), dry)

\* process_file (lines 204-257): the message is its kind, the file type and
\* changes_count
process_file(content, path_str, dry, vb) ==
    IF ~content.parses THEN FileResult(FALSE, <<"Error">>, Untouched(Null), FALSE)
    ELSE IF detect_file_type(path_str) = "unknown"
    THEN FileResult(FALSE, <<"Unknown file type", "unknown">>, Untouched(content.doc), FALSE)
    ELSE Report(detect_file_type(path_str),
                Standardize(detect_file_type(path_str), content.doc, vb), dry)

(***************************************************************************)
(* fix-title-case.py: fix_terminology_file, fix_techniques_file,           *)
(* fix_vocabulary_file and main.  An outcome counts in `renamed` the       *)
(* values that were re-cased (changed is renamed > 0) and holds in `log`   *)
(* the lines printed.                                                      *)
(***************************************************************************)
\* to_title_case on a JSON value (lines 26-27: anything but a non-empty
\* string is returned as it is)
TitleValue(original) ==
    IF Tag(original) = "str" THEN Str(to_title_case(Val(original))) ELSE original

\* if key in obj: original = obj[key]; fixed = to_title_case(original);
\* if original != fixed: obj[key] = fixed; changed = True   (lines 86-92)
FixField(obj, key) ==
    CASE Guard(obj, key) = "raise" -> Raised(obj)
      [] Guard(obj, key) = "skip" -> Untouched(obj)
      [] OTHER -> IF TitleValue(GetKey(Val(obj), key)) # GetKey(Val(obj), key)
                  THEN Outcome(Dict(SetKey(Val(obj), key, TitleValue(GetKey(Val(obj), key)))), 1, 0,
                               <<[original |-> GetKey(Val(obj), key),
                                  fixed |-> TitleValue(GetKey(Val(obj), key))]>>,
                               FALSE)
                  ELSE Untouched(obj)
\* the romanised property after the english one (lines 94-101)
FixRomanised(a) == IF a.raised THEN a ELSE Then(a, FixField(a.data, "romanised"))
\* the body of the loops of fix_terminology_file and fix_vocabulary_file
FixNames(obj) == FixRomanised(FixField(obj, "english"))
\* the body of the loop of fix_techniques_file (lines 120-138)
FixTechnique(technique) ==
    CASE Guard(technique, "names") = "raise" -> Raised(technique)
      [] Guard(technique, "names") = "skip" -> Untouched(technique)
      [] OTHER -> Within(technique, "names", FixNames(GetKey(Val(technique), "names")))

\* for item in data[key]: ..., nested being whether the names are in item['names']
FixItems(container, nested) ==
    IF ~Iterable(container) THEN Raised(container)
    ELSE Loop(container, [i \in 1..Len(Items(container)) |->
                             IF nested THEN FixTechnique(Items(container)[i])
                             ELSE FixNames(Items(container)[i])])
\* if key in data: for item in data[key]: ...
FixCollection(doc, key, nested) ==
    CASE Guard(doc, key) = "raise" -> Raised(doc)
      [] Guard(doc, key) = "skip" -> Untouched(doc)
      [] OTHER -> Within(doc, key, FixItems(GetKey(Val(doc), key), nested))

\* what a fix_*_file function returns and does: changed, the data it made and
\* wrote when changed, and whether it raised (then before any write)
Fixed(out) ==
    [changed |-> ~out.raised /\ out.renamed > 0, raised |-> out.raised, data |-> out.data,
     log |-> out.log]
FixFile(content, key, nested) ==
    IF ~content.parses THEN Fixed(Raised(Null)) ELSE Fixed(FixCollection(content.doc, key, nested))
fix_terminology_file(content) == FixFile(content, "terminology", FALSE)
fix_techniques_file(content) == FixFile(content, "techniques", TRUE)
fix_vocabulary_file(content) == FixFile(content, "words", FALSE)

(***************************************************************************)
(* chon_ji_dan_gun_corrections.py: ChonJiDanGunCorrector.  A correction is *)
(* carried as the move it was made on, the entries it adds to              *)
(* file_corrections, corrections_made, and whether an exception was raised *)
(* (apply_corrections catches it and returns False without writing).       *)
(***************************************************************************)
StartsWith(s, prefix) == Len(s) >= Len(prefix) /\ SubSeq(s, 1, Len(prefix)) = prefix

\* str.replace(old, new) for a non-empty old
RECURSIVE Replace(_, _, _)
Replace(s, old, new) ==
    IF Len(s) < Len(old) THEN s
    ELSE IF SubSeq(s, 1, Len(old)) = old
         THEN new \o Replace(SubSeq(s, Len(old) + 1, Len(s)), old, new)
         ELSE Ch(s, 1) \o Replace(SubSeq(s, 2, Len(s)), old, new)

\* `for x in v` on a parsed JSON value: the elements of an array, none of an
\* empty string or object; anything else raises here or in the loop body,
\* which calls .get() on each element
LoopRaises(v) == ~(Tag(v) = "list" \/ (Tag(v) \in {"str", "dict"} /\ Len(Val(v)) = 0))
LoopItems(v) == IF Tag(v) = "list" THEN Val(v) ELSE <<>>

\* target.lower() on a value that is not a string
TargetRaises(target) == Truthy(target) /\ Tag(target) # "str"

\* _standardize_target comparing the target as it is written
_standardize_target_exact(target) ==
    IF ~Truthy(target) \/ target = Str("null") THEN target
    ELSE IF Val(target) \in {"lower section", "low section"} THEN Str("Low Section")
    ELSE IF Val(target) \in {"middle section", "solar plexus"} THEN Str("Middle Section")
    ELSE IF Val(target) \in {"upper section", "high section", "head level"}
         THEN Str("High Section")
    ELSE target

_standardize_target(target) ==
    IF ~Truthy(target) \/ target = Str("null") THEN target
    ELSE IF Lower(Val(target)) \in {"lower section", "low section"} THEN Str("Low Section")
    ELSE IF Lower(Val(target)) \in {"middle section", "solar plexus"} THEN Str("Middle Section")
    ELSE IF Lower(Val(target)) \in {"upper section", "high section", "head level"}
         THEN Str("High Section")
    ELSE target

\* the techniques with an embedded target (lines 188-199)
SplitTable ==
    << <<"Low Outer Forearm Block", "Outer Forearm Block", "Low Section">>,
       <<"Middle Obverse Punch", "Obverse Punch", "Middle Section">>,
       <<"High Obverse Punch", "Obverse Punch", "High Section">>,
       <<"Middle Inner Forearm Block", "Inner Forearm Block", "Middle Section">>,
       <<"High Obverse Block", "Outer Forearm Block", "High Section">>,
       <<"Rising Block", "Forearm Rising Block", "High Section">> >>
InSplitTable(technique) == \E i \in 1..Len(SplitTable) : technique = Str(SplitTable[i][1])

\* _split_technique_target keeping a current target that is already set
_split_technique_target_keep(technique, current_target) ==
    IF InSplitTable(technique)
    THEN LET i == CHOOSE i \in 1..Len(SplitTable) : technique = Str(SplitTable[i][1]) IN
         <<Str(SplitTable[i][2]),
           IF Truthy(current_target) THEN current_target ELSE Str(SplitTable[i][3])>>
    ELSE <<technique, _standardize_target(current_target)>>

\* (new_technique, new_target)
_split_technique_target(technique, current_target) ==
    IF InSplitTable(technique)
    THEN LET i == CHOOSE i \in 1..Len(SplitTable) : technique = Str(SplitTable[i][1]) IN
         <<Str(SplitTable[i][2]), Str(SplitTable[i][3])>>
    ELSE <<technique, _standardize_target(current_target)>>

MoveState(move, log, made, raised) ==
    [move |-> move, log |-> log, made |-> made, raised |-> raised]
Raise(st) == [st EXCEPT !.raised = TRUE]
\* move[field] = new and corrections_made = True without the append
CorrectSilently(st, field, old, new) ==
    [st EXCEPT !.move = SetKey(@, field, new), !.made = TRUE]
\* move[field] = new, corrections_made = True, file_corrections.append({...})
Correct(st, field, old, new) ==
    [st EXCEPT !.move = SetKey(@, field, new),
               !.made = TRUE,
               !.log = Append(@, [move |-> GetOr(st.move, "move_number", Num(0)),
                                  field |-> field, old |-> old, new |-> new])]

\* the stance of lines 65-79 and 118-132 without its prefixes
new_stance(stance) ==
    IF Replace(Replace(stance, "Left ", ""), "Right ", "") = "L Stance" THEN "L-stance"
    ELSE Replace(Replace(stance, "Left ", ""), "Right ", "")

CorrectStance(st, stance) ==
    IF Tag(stance) # "str" THEN Raise(st)
    ELSE IF StartsWith(Val(stance), "Left ") \/ StartsWith(Val(stance), "Right ")
         THEN Correct(st, "stance", stance, Str(new_stance(Val(stance))))
    ELSE st

\* lines 88-106 and 162-180, on split = (new_technique, new_target)
CorrectTarget(st, target, split) ==
    IF split[2] # target THEN Correct(st, "target", target, split[2]) ELSE st
CorrectSplit(st, technique, target, split) ==
    CorrectTarget(IF split[1] # technique THEN Correct(st, "technique", technique, split[1])
                  ELSE st,
                  target, split)
CorrectTechnique(st, technique, target) ==
    IF st.raised THEN st
    ELSE IF ~InSplitTable(technique) /\ TargetRaises(target) THEN Raise(st)
    ELSE CorrectSplit(st, technique, target, _split_technique_target(technique, target))

\* the typos of lines 135-156
CorrectTypos(st, technique) ==
    IF st.raised THEN st
    ELSE IF technique = Str("High Observe Punch")
         THEN Correct(st, "technique", technique, Str("High Obverse Punch"))
    ELSE IF technique = Str("Twin Outer Forearm Bloack")
         THEN Correct(st, "technique", technique, Str("Twin Outer Forearm Block"))
    ELSE st

\* the body of the loop of _correct_chon_ji (lines 62-106) on one move
ChonJiMove(move) ==
    IF Tag(move) # "dict" THEN MoveState(move, <<>>, FALSE, TRUE)
    ELSE CorrectTechnique(CorrectStance(MoveState(Val(move), <<>>, FALSE, FALSE),
                                        GetOr(Val(move), "stance", Str(""))),
                          GetOr(Val(move), "technique", Str("")),
                          GetOr(Val(move), "target", Str("")))

\* the end of the body of the loop of _correct_dan_gun (lines 158-180)
DanGunSplit(st) ==
    CorrectTechnique(st, GetOr(st.move, "technique", Str("")), GetOr(st.move, "target", Str("")))
\* the body of the loop of _correct_dan_gun (lines 115-180) on one move
DanGunMove(move) ==
    IF Tag(move) # "dict" THEN MoveState(move, <<>>, FALSE, TRUE)
    ELSE DanGunSplit(CorrectTypos(CorrectStance(MoveState(Val(move), <<>>, FALSE, FALSE),
                                                GetOr(Val(move), "stance", Str(""))),
                                  GetOr(Val(move), "technique", Str(""))))

PatternState(pattern, log, made, raised) ==
    [pattern |-> pattern, log |-> log, made |-> made, raised |-> raised]
\* a pattern after the loop over its moves, from what the loop body made of each
CorrectedPattern(pattern, sts) ==
    IF \E i \in 1..Len(sts) : sts[i].raised THEN PatternState(pattern, <<>>, FALSE, TRUE)
    ELSE IF Len(sts) = 0 THEN PatternState(pattern, <<>>, FALSE, FALSE)
    ELSE PatternState(Dict(SetKey(Val(pattern), "moves",
                                  List(Tuple([i \in 1..Len(sts) |-> Dict(sts[i].move)])))),
                      ConcatSeq(Tuple([i \in 1..Len(sts) |-> sts[i].log])),
                      \E i \in 1..Len(sts) : sts[i].made,
                      FALSE)

_correct_chon_ji(pattern) ==
    IF LoopRaises(GetOr(Val(pattern), "moves", List(<<>>)))
    THEN PatternState(pattern, <<>>, FALSE, TRUE)
    ELSE CorrectedPattern(pattern,
             Tuple([i \in 1..Len(LoopItems(GetOr(Val(pattern), "moves", List(<<>>)))) |->
                       ChonJiMove(LoopItems(GetOr(Val(pattern), "moves", List(<<>>)))[i])]))

_correct_dan_gun(pattern) ==
    IF LoopRaises(GetOr(Val(pattern), "moves", List(<<>>)))
    THEN PatternState(pattern, <<>>, FALSE, TRUE)
    ELSE CorrectedPattern(pattern,
             Tuple([i \in 1..Len(LoopItems(GetOr(Val(pattern), "moves", List(<<>>)))) |->
                       DanGunMove(LoopItems(GetOr(Val(pattern), "moves", List(<<>>)))[i])]))

\* the body of the loop of apply_corrections (lines 31-36) on one pattern
CorrectPattern(pattern) ==
    IF Tag(pattern) # "dict" THEN PatternState(pattern, <<>>, FALSE, TRUE)
    ELSE IF GetOr(Val(pattern), "name", Str("Unknown")) = Str("Chon-Ji")
         THEN _correct_chon_ji(pattern)
    ELSE IF GetOr(Val(pattern), "name", Str("Unknown")) = Str("Dan-Gun")
         THEN _correct_dan_gun(pattern)
    ELSE PatternState(pattern, <<>>, FALSE, FALSE)

\* what apply_corrections makes of the data: the data, file_corrections,
\* corrections_made (the value it returns), and whether it raised
Corrections(doc, log, made, raised) ==
    [data |-> doc, corrections |-> log, made |-> made, raised |-> raised]
CorrectedData(doc, ps) ==
    IF \E i \in 1..Len(ps) : ps[i].raised THEN Corrections(doc, <<>>, FALSE, TRUE)
    ELSE IF Len(ps) = 0 THEN Corrections(doc, <<>>, FALSE, FALSE)
    ELSE Corrections(Dict(SetKey(Val(doc), "patterns",
                                 List(Tuple([i \in 1..Len(ps) |-> ps[i].pattern])))),
                     ConcatSeq(Tuple([i \in 1..Len(ps) |-> ps[i].log])),
                     \E i \in 1..Len(ps) : ps[i].made,
                     FALSE)

\* ChonJiDanGunCorrector.apply_corrections (lines 21-55) up to its write
ChonJiDanGunCorrector_apply_corrections(content) ==
    IF ~content.parses \/ Tag(content.doc) # "dict"
    THEN Corrections(content.doc, <<>>, FALSE, TRUE)
    ELSE IF LoopRaises(GetOr(Val(content.doc), "patterns", List(<<>>)))
    THEN Corrections(content.doc, <<>>, FALSE, TRUE)
    ELSE CorrectedData(content.doc,
             Tuple([i \in 1..Len(LoopItems(GetOr(Val(content.doc), "patterns", List(<<>>)))) |->
                       CorrectPattern(LoopItems(GetOr(Val(content.doc), "patterns", List(<<>>)))[i])]))

\* json.dump(data, f, indent=2, ensure_ascii=False)
json_dump(doc) == [parses |-> TRUE, doc |-> doc, layout |-> "indent2"]

(***************************************************************************)
(* korean_romanization_corrections.py: KoreanRomanizationCorrector.        *)
(* self.korean_mapping is the sequence of its (technique, romanization)    *)
(* pairs.                                                                  *)
(***************************************************************************)
\* _build_korean_mapping (lines 21-124)
korean_mapping ==
    << <<"Obverse Punch", "Baro Jirugi">>,
       <<"Reverse Punch", "Bandae Jirugi">>,
       <<"High Punch", "Nopunde Jirugi">>,
       <<"Middle Punch", "Kaunde Jirugi">>,
       <<"Low Punch", "Najunde Jirugi">>,
       <<"Upset Punch", "Dwijibo Jirugi">>,
       <<"Twin Vertical Punch", "Sang Sewo Jirugi">>,
       <<"Double Punch", "Doo Jirugi">>,
       <<"Flat Fingertip Thrust", "Opun Sonkut Tulgi">>,
       <<"Straight Fingertip Thrust", "Sun Sonkut Tulgi">>,
       <<"Upset Fingertip Thrust", "Dwijibo Sonkut Tulgi">>,
       <<"Inner Forearm Block", "An Palmok Makgi">>,
       <<"Inner Forearm Middle Block", "An Palmok Kaunde Makgi">>,
       <<"Outer Forearm Block", "Bakat Palmok Makgi">>,
       <<"Outer Forearm Low Block", "Bakat Palmok Najunde Makgi">>,
       <<"Outer Forearm Middle Block", "Bakat Palmok Kaunde Makgi">>,
       <<"Outer Forearm High Block", "Bakat Palmok Nopunde Makgi">>,
       <<"Outer Forearm Middle Inward Block", "Bakat Palmok Kaunde Anaero Makgi">>,
       <<"Twin Outer Forearm Block", "Sang Bakat Palmok Makgi">>,
       <<"Double Forearm Block", "Doo Palmok Makgi">>,
       <<"Forearm Guarding Block", "Palmok Daebi Makgi">>,
       <<"Forearm Rising Block", "Palmok Chookyo Makgi">>,
       <<"Inner Forearm Circular Block", "An Palmok Dollimyo Makgi">>,
       <<"Knife Hand Block", "Sonkal Makgi">>,
       <<"Knife Hand Guarding Block", "Sonkal Daebi Makgi">>,
       <<"Knife Hand Strike", "Sonkal Taerigi">>,
       <<"Inward Knife Hand Strike", "Anaero Sonkal Taerigi">>,
       <<"Knife Hand Downward Strike", "Naeryo Sonkal Taerigi">>,
       <<"Reverse Knife Hand Strike", "Bandae Sonkal Taerigi">>,
       <<"Reverse Knife Hand Inward Strike", "Sonkal Dung Anaero Taerigi">>,
       <<"Twin Knife Hand Block", "Sang Sonkal Makgi">>,
       <<"X Knife Hand Checking Block", "Kyocha Sonkal Momchau Makgi">>,
       <<"Back Fist Strike", "Dung Joomuk Taerigi">>,
       <<"Back Fist Rear Strike", "Dung Joomuk Dwutcha Taerigi">>,
       <<"Back Fist Side Strike", "Dung Joomuk Yop Taerigi">>,
       <<"Back Fist Strike/Outer Forearm Low Block", "Dung Joomuk Taerigi/Bakat Palmok Najunde Makgi">>,
       <<"Palm Pushing Block", "Sonbadak Mireo Makgi">>,
       <<"Twin Palm Upward Block", "Sang Sonbadak Ollyo Makgi">>,
       <<"Twin Upward Palm Block", "Sang Sonbadak Ollyo Makgi">>,
       <<"Front Kick", "Ap Chagi">>,
       <<"Front Snap Kick", "Ap Cha Busigi">>,
       <<"Side Piercing Kick", "Yop Cha Jirugi">>,
       <<"Side Piercing Kick to Rear", "Dwi Yop Cha Jirugi">>,
       <<"Turning Kick", "Dollyo Chagi">>,
       <<"Reverse Side Kick", "Bandae Yop Chagi">>,
       <<"Flying Side Piercing Kick", "Twimyo Yop Cha Jirugi">>,
       <<"Rising Kick", "Ap Cha Olligi">>,
       <<"Knee Kick", "Moorup Chagi">>,
       <<"X-Fist Pressing Block", "Kyocha Joomuk Noollo Makgi">>,
       <<"U-shape Block", "Digutja Makgi">>,
       <<"W Shaped Block", "San Makgi">>,
       <<"Double Forearm Pushing Block", "Doo Palmok Mireo Makgi">>,
       <<"Grab (Opponent's Head)", "Meori Japgi">>,
       <<"Grab to Shoulders", "Eokae Japgi">>,
       <<"Release Move", "Nohgi">>,
       <<"Posture Move", "Jasei Dongjak">>,
       <<"Flying Side Piercing Kick / Knife Hand Guarding Block", "Twimyo Yop Cha Jirugi/Sonkal Daebi Makgi">>,
       <<"Back Fist Strike / Outer Forearm Low Block", "Dung Joomuk Taerigi/Bakat Palmok Najunde Makgi">>,
       <<"Front Outer Forearm Block / Back Fist Side Strike", "Ap Bakat Palmok Makgi/Dung Joomuk Yop Taerigi">>,
       <<"Inner Forearm Block / Outer Forearm Block", "An Palmok Makgi/Bakat Palmok Makgi">>,
       <<"Jump 360 to Knife Hand Guarding Block", "360 Twimyo Sonkal Daebi Makgi">>,
       <<"Side Elbow Thrust", "Yop Palkup Taerigi">> >>

\* the body of the inner loop with a correction recorded for every move whose
\* technique is a key, differing or not
KoreanMoveAlways(pattern_name, move) ==
    IF Tag(move) # "dict" THEN MoveState(move, <<>>, FALSE, TRUE)
    ELSE IF Tag(GetOr(Val(move), "technique", Str(""))) \in {"list", "dict"}
         THEN MoveState(Val(move), <<>>, FALSE, TRUE)
    ELSE IF /\ Tag(GetOr(Val(move), "technique", Str(""))) = "str"
            /\ HasKey(korean_mapping, Val(GetOr(Val(move), "technique", Str(""))))
         THEN MoveState(SetKey(Val(move), "korean_technique",
                               Str(GetKey(korean_mapping, Val(GetKey(Val(move), "technique"))))),
                        <<[pattern |-> pattern_name,
                           move |-> GetOr(Val(move), "move_number", Num(0)),
                           english_technique |-> GetKey(Val(move), "technique"),
                           old_korean |-> GetOr(Val(move), "korean_technique", Str("")),
                           new_korean |-> Str(GetKey(korean_mapping,
                                                     Val(GetKey(Val(move), "technique"))))]>>,
                        TRUE, FALSE)
    ELSE MoveState(Val(move), <<>>, FALSE, FALSE)
\* the body of the loop over the moves of a pattern (lines 147-168); a
\* technique that is a list or an object cannot be looked up (TypeError)
KoreanMove(pattern_name, move) ==
    IF Tag(move) # "dict" THEN MoveState(move, <<>>, FALSE, TRUE)
    ELSE IF Tag(GetOr(Val(move), "technique", Str(""))) \in {"list", "dict"}
         THEN MoveState(Val(move), <<>>, FALSE, TRUE)
    ELSE IF /\ Tag(GetOr(Val(move), "technique", Str(""))) = "str"
            /\ HasKey(korean_mapping, Val(GetOr(Val(move), "technique", Str(""))))
            /\ GetOr(Val(move), "korean_technique", Str(""))
                  # Str(GetKey(korean_mapping, Val(GetOr(Val(move), "technique", Str("")))))
         THEN MoveState(SetKey(Val(move), "korean_technique",
                               Str(GetKey(korean_mapping, Val(GetKey(Val(move), "technique"))))),
                        <<[pattern |-> pattern_name,
                           move |-> GetOr(Val(move), "move_number", Num(0)),
                           english_technique |-> GetKey(Val(move), "technique"),
                           old_korean |-> GetOr(Val(move), "korean_technique", Str("")),
                           new_korean |-> Str(GetKey(korean_mapping,
                                                     Val(GetKey(Val(move), "technique"))))]>>,
                        TRUE, FALSE)
    ELSE MoveState(Val(move), <<>>, FALSE, FALSE)

\* the body of the loop over the patterns (lines 143-168)
KoreanPattern(pattern) ==
    IF Tag(pattern) # "dict" THEN PatternState(pattern, <<>>, FALSE, TRUE)
    ELSE IF LoopRaises(GetOr(Val(pattern), "moves", List(<<>>)))
    THEN PatternState(pattern, <<>>, FALSE, TRUE)
    ELSE CorrectedPattern(pattern,
             Tuple([i \in 1..Len(LoopItems(GetOr(Val(pattern), "moves", List(<<>>)))) |->
                       KoreanMove(GetOr(Val(pattern), "name", Str("Unknown")),
                                  LoopItems(GetOr(Val(pattern), "moves", List(<<>>)))[i])]))

\* correct_korean_romanizations (lines 126-192) up to its write: the data,
\* file_corrections, corrections_made, and whether the except branch was taken
correct_korean_romanizations(content) ==
    IF ~content.parses \/ Tag(content.doc) # "dict"
    THEN Corrections(content.doc, <<>>, FALSE, TRUE)
    ELSE IF LoopRaises(GetOr(Val(content.doc), "patterns", List(<<>>)))
    THEN Corrections(content.doc, <<>>, FALSE, TRUE)
    ELSE CorrectedData(content.doc,
             Tuple([i \in 1..Len(LoopItems(GetOr(Val(content.doc), "patterns", List(<<>>)))) |->
                       KoreanPattern(LoopItems(GetOr(Val(content.doc), "patterns", List(<<>>)))[i])]))

(***************************************************************************)
(* update_patterns_from_csv.py: PatternUpdater.  self.corrections is the   *)
(* sequence of its (key, correction) pairs in insertion order; a           *)
(* correction is the record of its five stripped strings.                  *)
(***************************************************************************)
EndsWith(s, suffix) ==
    Len(s) >= Len(suffix) /\ SubSeq(s, Len(s) - Len(suffix) + 1, Len(s)) = suffix
\* str.isdigit() on ASCII text
IsDigit(s) == s # "" /\ \A i \in 1..Len(s) : Contains(DigitChars, Ch(s, i))
\* str.strip()
RECURSIVE StrStrip(_)
StrStrip(s) ==
    IF s = "" THEN ""
    ELSE IF IsSpace(Ch(s, 1)) THEN StrStrip(SubSeq(s, 2, Len(s)))
    ELSE IF IsSpace(Ch(s, Len(s))) THEN StrStrip(SubSeq(s, 1, Len(s) - 1))
    ELSE s

\* lines 60-72 without the branch for a bare 90
standardize_movement_bare(movement) ==
    IF movement = "-" THEN "-"
    ELSE IF IsDigit(movement)
         THEN IF ~EndsWith(movement, "°") THEN movement \o "°" ELSE movement
    ELSE IF /\ ~EndsWith(movement, "°")
            /\ \E deg \in {"90", "180", "270", "360", "45", "135"} : Substring(deg, movement)
         THEN IF ~Substring("°", movement) THEN movement \o "°" ELSE movement
    ELSE movement
\* lines 60-72
standardize_movement(movement) ==
    IF movement = "-" THEN "-"
    ELSE IF IsDigit(movement)
         THEN IF movement = "90" THEN "Left " \o movement \o "°"
              ELSE IF ~EndsWith(movement, "°") THEN movement \o "°" ELSE movement
    ELSE IF /\ ~EndsWith(movement, "°")
            /\ \E deg \in {"90", "180", "270", "360", "45", "135"} : Substring(deg, movement)
         THEN IF ~Substring("°", movement) THEN movement \o "°" ELSE movement
    ELSE movement
\* lines 75-79
standardize_stance(stance) ==
    IF Substring("L Stance", stance) /\ ~Substring("-", stance)
    THEN Replace(stance, "L Stance", "L-stance")
    ELSE stance

standardize_values(correction) ==
    [correction EXCEPT !.movement = standardize_movement(@),
                       !.stance = standardize_stance(@),
                       !.technique = StrStrip(@)]

normalize_pattern_name(name) == Replace(name, " ", "-")

\* f"{value}" of a parsed JSON value; the text of an array or an object is
\* none that a key of the table ends with
Format(v) ==
    CASE Tag(v) = "num" -> ToString(Val(v))
      [] Tag(v) = "str" -> Val(v)
      [] Tag(v) = "bool" -> IF Val(v) THEN "True" ELSE "False"
      [] Tag(v) = "null" -> "None"
      [] OTHER -> "[...]"

\* f"{pattern_name}_{move_number}" and key.split('_')[0]
CorrectionKey(pattern_name, move_number) == pattern_name \o "_" \o Format(move_number)
PatternOfKey(key) == IF Contains(key, "_") THEN SubSeq(key, 1, Find(key, "_") - 1) ELSE key

patterns_dir == "/Content/Patterns"
\* os.path.join(self.patterns_dir, filename)
PathJoin(dir, filename) == dir \o "/" \o filename
NotFound == ""

pattern_file_map ==
    << <<"Dan-Gun", <<"9th_keup_patterns.json", "8th_keup_patterns.json">> >>,
       <<"Do-San", <<"7th_keup_patterns.json", "6th_keup_patterns.json">> >>,
       <<"Won-Hyo", <<"5th_keup_patterns.json", "4th_keup_patterns.json">> >>,
       <<"Yul-Gok", <<"3rd_keup_patterns.json", "2nd_keup_patterns.json">> >>,
       <<"Joong-Gun", <<"1st_keup_patterns.json">> >>,
       <<"Toi-Gye", <<"1st_dan_patterns.json">> >>,
       <<"Hwa-Rang", <<"1st_dan_patterns.json", "2nd_dan_patterns.json">> >>,
       <<"Choong-Moo", <<"1st_dan_patterns.json", "2nd_dan_patterns.json">> >> >>
\* the paths of the files the map names for a pattern, none when it names none
MappedFiles(json_pattern_name) ==
    IF HasKey(pattern_file_map, json_pattern_name)
    THEN Tuple([i \in 1..Len(GetKey(pattern_file_map, json_pattern_name)) |->
                   PathJoin(patterns_dir, GetKey(pattern_file_map, json_pattern_name)[i])])
    ELSE <<>>

\* pattern['name'] does not raise
HasName(pattern) == Tag(pattern) = "dict" /\ HasKey(Val(pattern), "name")
\* pattern['name'] == json_pattern_name
IsNamed(pattern, json_pattern_name) ==
    HasName(pattern) /\ GetKey(Val(pattern), "name") = Str(json_pattern_name)
\* the index of the first pattern of the array that pattern['name'] ==
\* json_pattern_name is reached and true for, 0 when the loop ends or raises first
FirstNamed(patterns, json_pattern_name) ==
    IF Tag(patterns) = "list" /\ \E i \in 1..Len(Val(patterns)) :
           /\ IsNamed(Val(patterns)[i], json_pattern_name)
           /\ \A j \in 1..(i - 1) : HasName(Val(patterns)[j])
    THEN CHOOSE i \in 1..Len(Val(patterns)) :
             /\ IsNamed(Val(patterns)[i], json_pattern_name)
             /\ \A j \in 1..(i - 1) : ~IsNamed(Val(patterns)[j], json_pattern_name)
    ELSE 0

\* lines 114-121 and 127-134: the file is read and holds the pattern
HoldsPattern(content, json_pattern_name) ==
    /\ content.parses
    /\ Tag(content.doc) = "dict"
    /\ FirstNamed(GetOr(Val(content.doc), "patterns", List(<<>>)), json_pattern_name) > 0

\* find_pattern_file (lines 91-136) on a store, with what os.listdir returns
\* as the paths of the files of patterns_dir in some order; NotFound stands
\* for FileNotFoundError
FirstHolding(candidates, store, json_pattern_name) ==
    IF \E i \in 1..Len(candidates) :
           candidates[i] \in DOMAIN store /\ HoldsPattern(store[candidates[i]], json_pattern_name)
    THEN candidates[CHOOSE i \in 1..Len(candidates) :
             /\ candidates[i] \in DOMAIN store
             /\ HoldsPattern(store[candidates[i]], json_pattern_name)
             /\ \A j \in 1..(i - 1) :
                    ~(candidates[j] \in DOMAIN store
                        /\ HoldsPattern(store[candidates[j]], json_pattern_name))]
    ELSE NotFound
JsonFilesOf(listing) ==
    LET IsJson(q) == EndsWith(q, ".json") IN SelectSeq(listing, IsJson)
find_pattern_file(pattern_name, store, listing) ==
    FirstHolding(MappedFiles(normalize_pattern_name(pattern_name)) \o JsonFilesOf(listing),
                 store, normalize_pattern_name(pattern_name))

\* a move made anew of the five fields of the correction
SetFieldsOnly(pairs, c) ==
    << <<"direction", Str(c.direction)>>, <<"movement", Str(c.movement)>>,
       <<"stance", Str(c.stance)>>, <<"technique", Str(c.technique)>>,
       <<"target", Str(c.target)>> >>
\* lines 167-171
SetFields(pairs, c) ==
    SetKey(SetKey(SetKey(SetKey(SetKey(pairs, "direction", Str(c.direction)),
                                "movement", Str(c.movement)),
                         "stance", Str(c.stance)),
                  "technique", Str(c.technique)),
           "target", Str(c.target))

\* the fields a correction sets, in the order of the loop of line 174
correction_fields == <<"direction", "movement", "stance", "technique", "target">>
\* a line printed for every field, changed or not
PrintedChangesAll(pattern_name, pairs, c) ==
    Tuple([i \in 1..Len(correction_fields) |->
              [pattern |-> pattern_name, move |-> GetKey(pairs, "move_number"),
               field |-> correction_fields[i],
               old |-> GetOr(pairs, correction_fields[i], Str("")),
               new |-> Str(c[correction_fields[i]])]])
\* the lines printed for a move (lines 159-165 and 173-176), c the standardized
\* correction and pairs the move before it is applied: one line for each field
\* whose old value, '' when the move lacks the field, is not the correction's
PrintedChanges(pattern_name, pairs, c) ==
    LET Differs(field) == GetOr(pairs, field, Str("")) # Str(c[field])
        changed == SelectSeq(correction_fields, Differs)
    IN Tuple([i \in 1..Len(changed) |->
                 [pattern |-> pattern_name, move |-> GetKey(pairs, "move_number"),
                  field |-> changed[i],
                  old |-> GetOr(pairs, changed[i], Str("")),
                  new |-> Str(c[changed[i]])]])

MoveUpdate(move, count, raised, printed) ==
    [move |-> move, updates_count |-> count, raised |-> raised, changes |-> printed]
\* the body of the loop over the moves (lines 152-178) on one move
UpdateMove(move, pattern_name, pattern_corrections) ==
    IF Tag(move) # "dict" \/ ~HasKey(Val(move), "move_number") THEN MoveUpdate(move, 0, TRUE, <<>>)
    ELSE IF HasKey(pattern_corrections, CorrectionKey(pattern_name, GetKey(Val(move), "move_number")))
         THEN MoveUpdate(Dict(SetFields(Val(move),
                                        standardize_values(GetKey(pattern_corrections,
                                            CorrectionKey(pattern_name,
                                                          GetKey(Val(move), "move_number")))))),
                         1, FALSE,
                         PrintedChanges(pattern_name, Val(move),
                                        standardize_values(GetKey(pattern_corrections,
                                            CorrectionKey(pattern_name,
                                                          GetKey(Val(move), "move_number"))))))
    ELSE MoveUpdate(move, 0, FALSE, <<>>)

\* what update_pattern_file makes of the data: the data, updates_count,
\* whether it raised (then before its write), and the lines it printed
FileUpdate(doc, count, raised, printed) ==
    [data |-> doc, updates_count |-> count, raised |-> raised, changes |-> printed]
\* the lines printed for the moves before the first one that raises
PrintedBefore(ms) ==
    ConcatSeq(Tuple([k \in 1..Len(ms) |->
                        IF \E j \in 1..k : ms[j].raised THEN <<>> ELSE ms[k].changes]))
\* the data with the moves of its pattern i as the loop body left them
UpdatedData(doc, i, ms) ==
    IF \E k \in 1..Len(ms) : ms[k].raised THEN FileUpdate(doc, 0, TRUE, PrintedBefore(ms))
    ELSE IF Len(ms) = 0 THEN FileUpdate(doc, 0, FALSE, <<>>)
    ELSE FileUpdate(
             Dict(SetKey(Val(doc), "patterns",
                         List([Val(GetKey(Val(doc), "patterns")) EXCEPT ![i] =
                                  Dict(SetKey(Val(@), "moves",
                                              List(Tuple([k \in 1..Len(ms) |-> ms[k].move]))))]))),
             SumSeq(Tuple([k \in 1..Len(ms) |-> ms[k].updates_count])),
             FALSE,
             PrintedBefore(ms))
\* lines 149-180 on the patterns of the data, i the pattern the loop stops at
UpdatePatterns(doc, patterns, i, pattern_name, pattern_corrections) ==
    IF LoopRaises(patterns) THEN FileUpdate(doc, 0, TRUE, <<>>)
    ELSE IF i = 0
         THEN FileUpdate(doc, 0, \E j \in 1..Len(LoopItems(patterns)) : ~HasName(LoopItems(patterns)[j]),
                         <<>>)
    ELSE IF LoopRaises(GetOr(Val(Val(patterns)[i]), "moves", List(<<>>)))
         THEN FileUpdate(doc, 0, TRUE, <<>>)
    ELSE UpdatedData(doc, i,
             Tuple([k \in 1..Len(LoopItems(GetOr(Val(Val(patterns)[i]), "moves", List(<<>>)))) |->
                       UpdateMove(LoopItems(GetOr(Val(Val(patterns)[i]), "moves", List(<<>>)))[k],
                                  pattern_name, pattern_corrections)]))

\* update_pattern_file (lines 138-186) up to its write
update_pattern_file(content, pattern_name, pattern_corrections) ==
    IF ~content.parses \/ Tag(content.doc) # "dict" THEN FileUpdate(content.doc, 0, TRUE, <<>>)
    ELSE UpdatePatterns(content.doc, GetOr(Val(content.doc), "patterns", List(<<>>)),
                        FirstNamed(GetOr(Val(content.doc), "patterns", List(<<>>)),
                                   normalize_pattern_name(pattern_name)),
                        pattern_name, pattern_corrections)

\* the keys of patterns_to_correct (lines 193-198), in insertion order
RECURSIVE PatternNames(_, _)
PatternNames(all_corrections, seen) ==
    IF Len(all_corrections) = 0 THEN <<>>
    ELSE IF PatternOfKey(all_corrections[1][1]) \in seen THEN PatternNames(Tail(all_corrections), seen)
    ELSE <<PatternOfKey(all_corrections[1][1])>>
             \o PatternNames(Tail(all_corrections), seen \cup {PatternOfKey(all_corrections[1][1])})
\* patterns_to_correct[pattern_name]
CorrectionsFor(all_corrections, pattern_name) ==
    LET Belongs(pair) == PatternOfKey(pair[1]) = pattern_name IN SelectSeq(all_corrections, Belongs)

\* the store, the writes issued, self.updates_applied, self.patterns_updated,
\* what was printed per pattern, and the field changes printed
UpdaterState(store, wr, applied, updated, log) ==
    [files |-> store, written |-> wr, updates_applied |-> applied,
     patterns_updated |-> updated, log |-> log, changes |-> <<>>]
\* lines 204-207 and 211-212, u what update_pattern_file did on the file at q
Updated(st, pattern_name, q, u) ==
    IF u.raised THEN [st EXCEPT !.log = Append(@, <<pattern_name, "error", 0, q>>),
                                !.changes = @ \o u.changes]
    ELSE [st EXCEPT !.files[q] = json_dump(u.data),
                    !.written = Append(@, q),
                    !.updates_applied = @ + u.updates_count,
                    !.patterns_updated = @ \cup {pattern_name},
                    !.log = Append(@, <<pattern_name, "applied", u.updates_count, q>>),
                    !.changes = @ \o u.changes]
\* the body of the loop of apply_corrections (lines 202-212), q the file found
ApplyOne(st, pattern_name, all_corrections, q) ==
    IF q = NotFound THEN [st EXCEPT !.log = Append(@, <<pattern_name, "not found", 0, NotFound>>)]
    ELSE Updated(st, pattern_name, q,
                 update_pattern_file(st.files[q], pattern_name,
                                     CorrectionsFor(all_corrections, pattern_name)))
\* the loop of apply_corrections ended by the first pattern no file holds
RECURSIVE ApplyToAbort(_, _, _, _)
ApplyToAbort(st, names, all_corrections, listing) ==
    IF Len(names) = 0 THEN st
    ELSE IF find_pattern_file(names[1], st.files, listing) = NotFound
         THEN ApplyOne(st, names[1], all_corrections, NotFound)
    ELSE ApplyToAbort(ApplyOne(st, names[1], all_corrections,
                               find_pattern_file(names[1], st.files, listing)),
                      Tail(names), all_corrections, listing)
RECURSIVE ApplyTo(_, _, _, _)
ApplyTo(st, names, all_corrections, listing) ==
    IF Len(names) = 0 THEN st
    ELSE ApplyTo(ApplyOne(st, names[1], all_corrections,
                          find_pattern_file(names[1], st.files, listing)),
                 Tail(names), all_corrections, listing)

\* PatternUpdater.apply_corrections (lines 188-212)
PatternUpdater_apply_corrections(st, all_corrections, listing) ==
    ApplyTo(st, PatternNames(all_corrections, {}), all_corrections, listing)

\* csv.DictReader(content.splitlines()) on a table given as its header and
\* the cells of its lines: a row maps each column of the header to its cell,
\* to None when the line is short; cells beyond the header go under the key
\* None, which nothing reads; an empty line yields no row
DictRow(fieldnames, cells) ==
    Tuple([i \in 1..Len(fieldnames) |->
              <<fieldnames[i], IF i <= Len(cells) THEN Str(cells[i]) ELSE Null>>])
DictReader(table) ==
    LET NonEmpty(cells) == Len(cells) > 0
        lines == SelectSeq(table.lines, NonEmpty)
    IN Tuple([i \in 1..Len(lines) |-> DictRow(table.fieldnames, lines[i])])

\* int(s) on a string (line 40): whitespace around it, an optional sign, then
\* decimal digits with single underscores between them; anything else raises
IntBody(s) ==
    IF StrStrip(s) # "" /\ Ch(StrStrip(s), 1) \in {"+", "-"}
    THEN SubSeq(StrStrip(s), 2, Len(StrStrip(s)))
    ELSE StrStrip(s)
IntRaises(s) ==
    LET b == IntBody(s) IN
    ~(/\ b # ""
      /\ Contains(DigitChars, Ch(b, 1))
      /\ Contains(DigitChars, Ch(b, Len(b)))
      /\ \A i \in 1..Len(b) : Contains(DigitChars, Ch(b, i)) \/ Ch(b, i) = "_"
      /\ \A i \in 1..(Len(b) - 1) : ~(Ch(b, i) = "_" /\ Ch(b, i + 1) = "_"))
RECURSIVE DigitsValue(_, _)
DigitsValue(b, acc) ==
    IF b = "" THEN acc
    ELSE IF Ch(b, 1) = "_" THEN DigitsValue(SubSeq(b, 2, Len(b)), acc)
    ELSE DigitsValue(SubSeq(b, 2, Len(b)), 10 * acc + (Find(DigitChars, Ch(b, 1)) - 1))
int(s) ==
    IF StartsWith(StrStrip(s), "-") THEN 0 - DigitsValue(IntBody(s), 0)
    ELSE DigitsValue(IntBody(s), 0)

\* the columns load_corrections reads from a row (lines 39-50)
required_columns == <<"Pattern", "Move", "Direction", "Movement", "Stance", "Technique", "Target">>
\* row[column] raises KeyError, None.strip() AttributeError, int(None) TypeError
CellRaises(row, column) == ~HasKey(row, column) \/ Tag(GetKey(row, column)) # "str"
\* the body of the loop of load_corrections raises on the row
RowRaises(row) ==
    \/ \E i \in 1..Len(required_columns) : CellRaises(row, required_columns[i])
    \/ IntRaises(Val(GetKey(row, "Move")))
\* key = f"{pattern_name}_{move_number}" (lines 39-43)
RowKey(row) ==
    CorrectionKey(StrStrip(Val(GetKey(row, "Pattern"))), Num(int(Val(GetKey(row, "Move")))))
\* the correction of a row (lines 45-51)
RowCorrection(row) ==
    [direction |-> StrStrip(Val(GetKey(row, "Direction"))),
     movement |-> StrStrip(Val(GetKey(row, "Movement"))),
     stance |-> StrStrip(Val(GetKey(row, "Stance"))),
     technique |-> StrStrip(Val(GetKey(row, "Technique"))),
     target |-> StrStrip(Val(GetKey(row, "Target")))]
\* the loop of load_corrections (lines 38-51) over the rows left: the first
\* row that raises ends it, with the corrections loaded so far
RECURSIVE LoadRows(_, _)
LoadRows(st, rows) ==
    IF Len(rows) = 0 THEN st
    ELSE IF RowRaises(rows[1]) THEN [st EXCEPT !.raised = TRUE]
    ELSE LoadRows([st EXCEPT !.corrections = SetKey(@, RowKey(rows[1]), RowCorrection(rows[1]))],
                  Tail(rows))
\* PatternUpdater.load_corrections (lines 26-53) on self.corrections == {}
load_corrections(table) == LoadRows([corrections |-> <<>>, raised |-> FALSE], DictReader(table))

\* PatternUpdater.generate_report (lines 214-223): the three counts, and the
\* number of the warning when it is printed
generate_report(all_corrections, applied, updated) ==
    [corrections_loaded |-> Len(all_corrections),
     updates_applied |-> applied,
     patterns_updated |-> Cardinality(updated),
     updated_patterns |-> updated,
     not_applied |-> IF applied # Len(all_corrections)
                     THEN <<Len(all_corrections) - applied>> ELSE <<>>]

(***************************************************************************)
(* process_linework_updates.py: LineWorkProcessor.to_title_case            *)
(***************************************************************************)
\* lines 57-72, in the order of the dict
special_cases ==
    << <<"x-fist", "X-Fist">>, <<"x-block", "X-Block">>, <<"u-shaped", "U-Shaped">>,
       <<"w shaped", "W Shaped">>, <<"l stance", "L Stance">>, <<"(x2)", "(x2)">>,
       <<"(360 deg)", "(360 deg)">>, <<"(180 deg)", "(180 deg)">>,
       <<"(same leg)", "(Same Leg)">>, <<"won hyo", "Won Hyo">>, <<"joong gun", "Joong Gun">>,
       <<"yul gok", "Yul Gok">>, <<"toi gye", "Toi Gye">>, <<"hwa rang", "Hwa Rang">> >>
\* line 86
linework_small_words == {"and", "or", "in", "on", "to", "of", "from", "into"}

\* a cased character
IsCased(c) == Contains(LowerChars, c) \/ Contains(UpperChars, c)
\* str.title(): a letter is upper-cased after a character that is not a
\* letter and lower-cased after a letter
RECURSIVE TitleFrom(_, _)
TitleFrom(s, i) ==
    IF i > Len(s) THEN ""
    ELSE (IF i > 1 /\ IsCased(Ch(s, i - 1)) THEN LowerCh(Ch(s, i)) ELSE UpperCh(Ch(s, i)))
             \o TitleFrom(s, i + 1)
Title(s) == TitleFrom(s, 1)

\* the loop over special_cases (lines 78-81) from the pair at i on
RECURSIVE SpecialCasesFrom(_, _, _)
SpecialCasesFrom(t, lower_text, i) ==
    IF i > Len(special_cases) THEN t
    ELSE SpecialCasesFrom(
             IF Substring(special_cases[i][1], lower_text)
             THEN Replace(Replace(t, special_cases[i][1], special_cases[i][2]),
                          Title(special_cases[i][1]), special_cases[i][2])
             ELSE t,
             lower_text, i + 1)
\* the loop over the words (lines 84-92)
LineWorkWords(words) ==
    Tuple([i \in 1..Len(words) |->
              IF Lower(words[i]) \in linework_small_words /\ i > 1 THEN Lower(words[i])
              ELSE Capitalize(words[i])])
\* LineWorkProcessor.to_title_case (lines 51-94)
LineWorkProcessor_to_title_case(t) ==
    IF t = "" THEN t
    ELSE Join(LineWorkWords(Split(SpecialCasesFrom(StrStrip(t), Lower(StrStrip(t)), 1))))

(***************************************************************************)
(* update_test_coding_keys.py: TestCodingKeysUpdater.  A Swift file is its *)
(* name and its text; re.subn returns the text after the replacements and  *)
(* their number.                                                           *)
(***************************************************************************)
\* s[i:].startswith(lit), i 1-based
HasAt(s, i, lit) == i >= 1 /\ i + Len(lit) - 1 <= Len(s) /\ SubSeq(s, i, i + Len(lit) - 1) = lit
\* sub in s
InStr(sub, s) == \E i \in 1..Len(s) : HasAt(s, i, sub)
\* the end of the run of whitespace that starts at i, i - 1 when there is none
RECURSIVE SpaceEnd(_, _)
SpaceEnd(s, i) == IF i <= Len(s) /\ IsSpace(Ch(s, i)) THEN SpaceEnd(s, i + 1) ELSE i - 1
Quoted(s) == "\"" \o s \o "\""

\* the patterns case\s+(GROUP)\s*=\s*"OLD" and their replacements
\* case \1 = "NEW" (lines 37-99); the group is \w*[Xx]mid[Yy]rest ("suffix"),
\* \w*[Rr]omanized\w* ("inside") or a literal word ("word")
pattern1 == [kind |-> "suffix", first |-> "Kk", mid |-> "orean", second |-> "Nn", rest |-> "ame",
             old |-> "korean_name", new |-> "romanised"]
pattern2 == [kind |-> "inside", first |-> "Rr", mid |-> "omanized", second |-> "", rest |-> "",
             old |-> "romanized_pronunciation", new |-> "romanised"]
pattern3 == [kind |-> "suffix", first |-> "Ee", mid |-> "nglish", second |-> "Tt", rest |-> "erm",
             old |-> "english_term", new |-> "english"]
pattern4 == [kind |-> "suffix", first |-> "Kk", mid |-> "orean", second |-> "Hh", rest |-> "angul",
             old |-> "korean_hangul", new |-> "hangul"]
pattern5 == [kind |-> "suffix", first |-> "Pp", mid |-> "honetic", second |-> "Pp",
             rest |-> "ronunciation", old |-> "phonetic_pronunciation", new |-> "phonetic"]
pattern6 == [kind |-> "word", first |-> "", mid |-> "pronunciation", second |-> "", rest |-> "",
             old |-> "pronunciation", new |-> "romanised"]
pattern7a == [kind |-> "word", first |-> "", mid |-> "technique", second |-> "", rest |-> "",
              old |-> "technique", new |-> "english"]
pattern7b == [kind |-> "suffix", first |-> "Kk", mid |-> "orean", second |-> "Tt",
              rest |-> "echnique", old |-> "korean_technique", new |-> "romanised"]

\* the word w is what the group of pattern p matches
GroupMatches(p, w) ==
    CASE p.kind = "word" -> w = p.mid
      [] p.kind = "inside" ->
             \E i \in 2..Len(w) : Contains(p.first, Ch(w, i - 1)) /\ HasAt(w, i, p.mid)
      [] p.kind = "suffix" ->
             LET n == Len(p.mid) + Len(p.rest) + 2
                 b == Len(w) - n + 1
             IN /\ b >= 1
                /\ Contains(p.first, Ch(w, b))
                /\ HasAt(w, b + 1, p.mid)
                /\ Contains(p.second, Ch(w, b + 1 + Len(p.mid)))
                /\ HasAt(w, b + 2 + Len(p.mid), p.rest)

\* where the word of a match of p that starts at i starts, 0 if p does not
\* match there: after 'case' and the whitespace that follows it
GroupStart(s, i) ==
    IF HasAt(s, i, "case") /\ SpaceEnd(s, i + 4) >= i + 4 /\ SpaceEnd(s, i + 4) < Len(s)
           /\ IsWordCh(Ch(s, SpaceEnd(s, i + 4) + 1))
    THEN SpaceEnd(s, i + 4) + 1 ELSE 0
\* where the match of p that starts at i ends, 0 if p does not match there;
\* b is where its word starts: the word is the whole run of \w, then come
\* \s*, '=', \s* and the quoted old name
MatchEndFrom(p, s, b) ==
    IF GroupMatches(p, SubSeq(s, b, RunEnd(s, b)))
           /\ HasAt(s, SpaceEnd(s, RunEnd(s, b) + 1) + 1, "=")
           /\ HasAt(s, SpaceEnd(s, SpaceEnd(s, RunEnd(s, b) + 1) + 2) + 1, Quoted(p.old))
    THEN SpaceEnd(s, SpaceEnd(s, RunEnd(s, b) + 1) + 2) + Len(Quoted(p.old))
    ELSE 0
MatchEnd(p, s, i) == IF GroupStart(s, i) = 0 THEN 0 ELSE MatchEndFrom(p, s, GroupStart(s, i))

Subn(new_text, n) == [text |-> new_text, count |-> n]
\* the result r for the rest of a text, after a piece and n replacements in it
After(piece, n, r) == Subn(piece \o r.text, r.count + n)
\* the least element of a non-empty set of positions, 0 for the empty set
FirstOf(S) == IF S = {} THEN 0 ELSE CHOOSE j \in S : \A k \in S : j <= k

\* re.subn(pattern, replacement, s) from position i on: the leftmost match,
\* which starts at j, is replaced, and the search goes on after it
RECURSIVE CaseSubnFrom(_, _, _)
CaseSubnAt(p, s, i, j) ==
    IF j = 0 THEN Subn(SubSeq(s, i, Len(s)), 0)
    ELSE After(SubSeq(s, i, j - 1) \o "case "
                   \o SubSeq(s, GroupStart(s, j), RunEnd(s, GroupStart(s, j)))
                   \o " = " \o Quoted(p.new),
               1, CaseSubnFrom(p, s, MatchEnd(p, s, j) + 1))
CaseSubnFrom(p, s, i) == CaseSubnAt(p, s, i, FirstOf({j \in i..Len(s) : MatchEnd(p, s, j) > 0}))

\* re.subn(r'\.romanized\b', '.romanised', s) (lines 101-105)
RECURSIVE PropertySubnFrom(_, _)
PropertySubnAt(s, i, j) ==
    IF j = 0 THEN Subn(SubSeq(s, i, Len(s)), 0)
    ELSE After(SubSeq(s, i, j - 1) \o ".romanised", 1, PropertySubnFrom(s, j + 10))
PropertySubnFrom(s, i) ==
    PropertySubnAt(s, i, FirstOf({j \in i..Len(s) :
                                     /\ HasAt(s, j, ".romanized")
                                     /\ (j + 10 > Len(s) \/ ~IsWordCh(Ch(s, j + 10)))}))

\* re.subn(r'"romanized"', '"romanised"', s) (lines 107-113)
RECURSIVE QuotedSubnFrom(_, _)
QuotedSubnAt(s, i, j) ==
    IF j = 0 THEN Subn(SubSeq(s, i, Len(s)), 0)
    ELSE After(SubSeq(s, i, j - 1) \o Quoted("romanised"), 1, QuotedSubnFrom(s, j + 11))
QuotedSubnFrom(s, i) ==
    QuotedSubnAt(s, i, FirstOf({j \in i..Len(s) : HasAt(s, j, Quoted("romanized"))}))

\* modified_content, count = re.subn(...); replacement_count += count
Counted(replacement_count, r) == Subn(r.text, replacement_count + r.count)
AddCase(acc, p) == Counted(acc.count, CaseSubnFrom(p, acc.text, 1))
AddProperty(acc) == Counted(acc.count, PropertySubnFrom(acc.text, 1))
AddQuoted(acc) == Counted(acc.count, QuotedSubnFrom(acc.text, 1))

\* 'Pattern' in file_path.name or 'PatternJSON' in original_content
PatternContext(name, original_content) ==
    InStr("Pattern", name) \/ InStr("PatternJSON", original_content)

\* the nine replacements of update_file (lines 34-113), in their order
TermCases(original_content) ==
    AddCase(AddCase(AddCase(AddCase(AddCase(Subn(original_content, 0), pattern1),
                                    pattern2), pattern3), pattern4), pattern5)
MoveCases(acc, in_context) ==
    IF in_context THEN AddCase(AddCase(AddCase(acc, pattern6), pattern7a), pattern7b) ELSE acc
QuotedNames(acc, in_vocabulary) == IF in_vocabulary THEN AddQuoted(acc) ELSE acc
Replacements(name, original_content) ==
    QuotedNames(AddProperty(MoveCases(TermCases(original_content),
                                      PatternContext(name, original_content))),
                InStr("Vocabulary", name))

\* what update_file returns and does: (was_modified, replacement_count), the
\* text it made, and whether it opened the file for writing
FileUpdated(original_content, r, dry) ==
    [was_modified |-> r.text # original_content, replacement_count |-> r.count,
     content |-> r.text, write |-> r.text # original_content /\ ~dry]
\* update_file writing whenever the text was modified
update_file_live(name, original_content, dry) ==
    FileUpdated(original_content, Replacements(name, original_content), FALSE)
\* TestCodingKeysUpdater.update_file (lines 26-121)
update_file(name, original_content, dry) ==
    FileUpdated(original_content, Replacements(name, original_content), dry)

(***************************************************************************)
(* The parts of the state a specification does not use stay as constructed. *)
(***************************************************************************)
NormIdle == text = "" /\ prev = "" /\ runs = 0
StdIdle ==
    /\ dry_run = FALSE
    /\ verbose = FALSE
    /\ stats = [properties_renamed |-> 0, empty_fields_removed |-> 0,
                files_written |-> 0, files_analyzed |-> 0]
    /\ changes_log = <<>>
MemIdle == subject = "" /\ data = Null /\ before = Null /\ last = Untouched(Null) /\ calls = 0
DetIdle == file_path = "" /\ detections = <<>>
BatchIdle ==
    /\ files = <<>>
    /\ initial = <<>>
    /\ json_files = <<>>
    /\ results = <<>>
    /\ written = <<>>
    /\ summary = <<>>
    /\ pc = "start"
PipeIdle ==
    /\ corrections = <<>>
    /\ updates_applied = 0
    /\ patterns_updated = {}
    /\ corrections_applied = <<>>
    /\ stages = <<>>
SplitIdle == move_technique = Null /\ move_target = Null /\ splits = <<>>
CsvIdle == csv_file = <<>> /\ run = "start" /\ report = <<>>
TestIdle ==
    /\ tests_dry_run = FALSE
    /\ test_files = <<>>
    /\ test_initial = <<>>
    /\ test_written = <<>>
    /\ test_stats = [files_processed |-> 0, files_modified |-> 0, replacements_made |-> 0]
    /\ test_results = <<>>
ValIdle == a_row = <<>> /\ a_correction = <<>> /\ standardized = <<>>

(***************************************************************************)
(* SpecNorm: the normalizer.                                               *)
(***************************************************************************)
\* the texts of the casing examples, a span of two words and a compound of
\* three parts
NormExamples ==
    {"low outer forearm block", "3-step sparring", "grab (opponent's head)", "(a b)",
     "x-y-z"}

NormInit ==
    /\ text \in Strings(MaxLen) \cup NormExamples
    /\ prev = ""
    /\ runs = 0
    /\ StdIdle /\ MemIdle /\ DetIdle /\ BatchIdle /\ PipeIdle /\ SplitIdle /\ CsvIdle /\ TestIdle /\ ValIdle

Normalize ==
    /\ runs < 2
    /\ text' = to_title_case(text)
    /\ prev' = text
    /\ runs' = runs + 1
    /\ UNCHANGED <<testVars, valVars, splitVars, csvVars, stdVars, memVars, detVars, batchVars, pipeVars>>

SpecNorm == NormInit /\ [][Normalize]_vars

(***************************************************************************)
(* SpecRename: _rename_keys called on one node, again and again, with one  *)
(* of the mappings of the standardize_* methods.                           *)
(***************************************************************************)
MappingNames == {"terminology", "techniques", "pattern", "move", "action", "theory", "vocabulary"}
MappingOf(name) ==
    CASE name = "terminology" -> terminology_mapping
      [] name = "techniques" -> techniques_mapping
      [] name = "pattern" -> pattern_mapping
      [] name = "move" -> move_mapping
      [] name = "action" -> action_mapping
      [] name = "theory" -> theory_mapping
      [] name = "vocabulary" -> vocabulary_mapping
SourceKeys(mapping) == {mapping[i][1] : i \in 1..Len(mapping)}
TargetKeys(mapping) == {mapping[i][2] : i \in 1..Len(mapping)}

\* the leaf values a node may hold
Vals == {Str(""), Str("a"), Str("b"), Num(0), Bool(FALSE)}

\* the dicts of at most n keys among keys, in every insertion order
RECURSIVE PairSeqs(_, _, _)
PairSeqs(keys, vals, n) ==
    IF n = 0 THEN {<<>>}
    ELSE LET shorter == PairSeqs(keys, vals, n - 1) IN
         shorter \cup {Append(x[1], <<x[2], x[3]>>) :
                          x \in {y \in shorter \X keys \X vals : ~HasKey(y[1], y[2])}}

Nodes(mapping) ==
    {Dict(p) : p \in PairSeqs(SourceKeys(mapping) \cup TargetKeys(mapping) \cup {"id"}, Vals, MaxKeys)}

RenameInit ==
    /\ NormIdle
    /\ dry_run = FALSE
    /\ verbose \in BOOLEAN
    /\ stats = [properties_renamed |-> 0, empty_fields_removed |-> 0,
                files_written |-> 0, files_analyzed |-> 0]
    /\ changes_log = <<>>
    /\ subject \in MappingNames
    /\ data \in Nodes(MappingOf(subject))
    /\ before = data
    /\ last = Untouched(data)
    /\ calls = 0
    /\ DetIdle /\ BatchIdle /\ PipeIdle /\ SplitIdle /\ CsvIdle /\ TestIdle /\ ValIdle

\* the effect of an outcome on self.stats and self.changes_log
Count(out) ==
    /\ stats' = [stats EXCEPT !.properties_renamed = @ + out.renamed,
                              !.empty_fields_removed = @ + out.removed]
    /\ changes_log' = changes_log \o out.log

RenameKeys ==
    /\ calls < 2
    /\ LET out == _rename_keys(data, MappingOf(subject), verbose) IN
       /\ data' = out.data
       /\ last' = out
       /\ Count(out)
    /\ before' = data
    /\ calls' = calls + 1
    /\ UNCHANGED <<testVars, valVars, splitVars, csvVars, normVars, dry_run, verbose, subject, detVars, batchVars, pipeVars>>

SpecRename == RenameInit /\ [][RenameKeys]_vars

(***************************************************************************)
(* SpecDoc: one parsed document of one of the seven types, migrated by its *)
(* type's standardize_* method, again and again.                           *)
(***************************************************************************)
FileTypes == {"terminology", "techniques", "linework", "patterns", "stepsparring", "theory", "vocabulary"}

\* the sequences of at most n elements of S
RECURSIVE Lists(_, _)
Lists(S, n) ==
    IF n = 0 THEN {<<>>}
    ELSE LET shorter == Lists(S, n - 1) IN shorter \cup {Append(l, x) : l \in shorter, x \in S}

DocVals == {Str(""), Str("a")}
\* nodes over the last source key of a mapping, its target key and an unrelated key
DocKeys(mapping) == {mapping[Len(mapping)][1], mapping[Len(mapping)][2], "id"}
SmallNodes(mapping) == {Dict(p) : p \in PairSeqs(DocKeys(mapping), DocVals, 1)}
DocNodes(mapping) == SmallNodes(mapping) \cup {Dict(p) : p \in PairSeqs(DocKeys(mapping), {Str("a")}, 2)}
\* a node that needs migrating, for the fixed parts of a document
LegacyNode(mapping) == Dict(<< <<"id", Str("b")>>, <<mapping[1][1], Str("b")>> >>)

\* a document with an unrelated top-level key and its collection, or without it
TopLevel(key, collections) ==
    {Dict(<< <<"belt_level", Str("a")>>, <<key, c>> >>) : c \in collections}
        \cup {Dict(<< <<"belt_level", Str("a")>> >>)}

\* a dict with key added to the pairs of a node
WithKey(node, key, value) == Dict(Append(Val(node), <<key, value>>))

TerminologyDocs == TopLevel("terminology", {List(l) : l \in Lists(DocNodes(terminology_mapping), MaxItems)})
VocabularyDocs == TopLevel("words", {List(l) : l \in Lists(DocNodes(vocabulary_mapping), MaxItems)})
LineWorkDocs == TopLevel("techniques", {List(l) : l \in Lists(SmallNodes(terminology_mapping), 1)})
TechniqueItems ==
    {Dict(<< <<"id", Str("a")>>, <<"names", n>> >>) : n \in DocNodes(techniques_mapping)}
        \cup {Dict(<< <<"id", Str("a")>> >>)}
TechniquesDocs == TopLevel("techniques", {List(l) : l \in Lists(TechniqueItems, MaxItems)})
PatternItems ==
    LET moves == {List(l) : l \in Lists(SmallNodes(move_mapping), MaxItems)} IN
    SmallNodes(pattern_mapping)
        \cup {WithKey(n, "moves", m) : n \in SmallNodes(pattern_mapping), m \in moves}
PatternsDocs ==
    TopLevel("patterns", {List(<<p>>) : p \in PatternItems}
                             \cup {List(<<p, WithKey(LegacyNode(pattern_mapping), "moves",
                                                      List(<<LegacyNode(move_mapping)>>))>>) :
                                      p \in PatternItems}
                             \cup {List(<<>>)})
StepItems ==
    LET attacks == {<<>>} \cup {<< <<"attack", n>> >> :
                                    n \in {LegacyNode(action_mapping),
                                           Dict(<< <<"technique", Str("")>> >>),
                                           Dict(<< <<"english", Str("a")>>, <<"korean_name", Str("a")>> >>)}}
        defenses == {<<>>, << <<"defense", LegacyNode(action_mapping)>> >>}
        counters == {<<>>, << <<"counter", Dict(<<>>)>> >>}
    IN {Dict(a \o d \o c) : a \in attacks, d \in defenses, c \in counters}
SequenceItems ==
    {Dict(<< <<"id", Str("a")>>, <<"steps", List(l)>> >>) : l \in Lists(StepItems, MaxItems)}
        \cup {Dict(<< <<"id", Str("a")>> >>)}
StepSparringDocs ==
    TopLevel("sequences", {List(<<q>>) : q \in SequenceItems}
                              \cup {List(<<q, q>>) : q \in SequenceItems}
                              \cup {List(<<>>)})
ContentItems_ ==
    LET tenets == {<<>>} \cup {<< <<"tenets", List(l)>> >> : l \in Lists(SmallNodes(theory_mapping), MaxItems)}
        greetings == {<<>>, << <<"greeting_terms", List(<<LegacyNode(theory_mapping)>>)>> >>}
        others == {<<>>,
                   << <<"title", Str("a")>> >>,
                   << <<"principles", List(<<LegacyNode(theory_mapping), Str("a")>>)>> >>}
    IN {Dict(o \o t \o g) : o \in others, t \in tenets, g \in greetings}
SectionItems ==
    {Dict(<< <<"id", Str("a")>>, <<"content", c>> >>) : c \in ContentItems_}
        \cup {Dict(<< <<"id", Str("a")>> >>)}
TheoryDocs ==
    TopLevel("theory_sections", {List(<<x>>) : x \in SectionItems}
                                    \cup {List(<<x, x>>) : x \in SectionItems}
                                    \cup {List(<<>>)})

Docs(file_type) ==
    CASE file_type = "terminology" -> TerminologyDocs
      [] file_type = "techniques" -> TechniquesDocs
      [] file_type = "linework" -> LineWorkDocs
      [] file_type = "patterns" -> PatternsDocs
      [] file_type = "stepsparring" -> StepSparringDocs
      [] file_type = "theory" -> TheoryDocs
      [] file_type = "vocabulary" -> VocabularyDocs

DocInit ==
    /\ NormIdle
    /\ dry_run = FALSE
    /\ verbose = TRUE
    /\ stats = [properties_renamed |-> 0, empty_fields_removed |-> 0,
                files_written |-> 0, files_analyzed |-> 0]
    /\ changes_log = <<>>
    /\ subject \in FileTypes
    /\ data \in Docs(subject)
    /\ before = data
    /\ last = Untouched(data)
    /\ calls = 0
    /\ DetIdle /\ BatchIdle /\ PipeIdle /\ SplitIdle /\ CsvIdle /\ TestIdle /\ ValIdle

\* a call of the standardize_* method of file_type on the document in memory
Call(file_type, out) ==
    /\ subject = file_type
    /\ calls < 2
    /\ data' = out.data
    /\ last' = out
    /\ Count(out)
    /\ before' = data
    /\ calls' = calls + 1
    /\ UNCHANGED <<testVars, valVars, splitVars, csvVars, normVars, dry_run, verbose, subject, detVars, batchVars, pipeVars>>

StandardizeTerminology == Call("terminology", standardize_terminology(data, verbose))
StandardizeTechniques == Call("techniques", standardize_techniques(data, verbose))
StandardizeLinework == Call("linework", standardize_linework(data, verbose))
StandardizePatterns == Call("patterns", standardize_patterns(data, verbose))
StandardizeStepsparring == Call("stepsparring", standardize_stepsparring(data, verbose))
StandardizeTheory == Call("theory", standardize_theory(data, verbose))
StandardizeVocabulary == Call("vocabulary", standardize_vocabulary(data, verbose))

DocNext ==
    \/ StandardizeTerminology
    \/ StandardizeTechniques
    \/ StandardizeLinework
    \/ StandardizePatterns
    \/ StandardizeStepsparring
    \/ StandardizeTheory
    \/ StandardizeVocabulary

SpecDoc == DocInit /\ [][DocNext]_vars

(***************************************************************************)
(* SpecDetect: detect_file_type called on one path, again and again.       *)
(***************************************************************************)
\* directory names: the seven known ones, one in lower case, an unknown one
Dirs == {"Terminology", "Techniques", "LineWork", "Patterns", "StepSparring", "Theory",
         "VocabularyBuilder", "patterns", "Misc"}
\* an absolute content directory, or a relative path
Roots == {"/Content", ""}
\* a file name, and a file whose name is that of a known directory
Leaves == {"a.json", "Theory"}

\* str(Path(...)): the parts joined by '/'
RECURSIVE PathStr(_)
PathStr(parts) ==
    IF Len(parts) = 1 THEN parts[1] ELSE parts[1] \o "/" \o PathStr(Tail(parts))

Paths(n) ==
    {PathStr((IF root = "" THEN <<>> ELSE <<root>>) \o dirs \o <<leaf>>) :
        root \in Roots, dirs \in (Lists(Dirs, n) \ {<<>>}), leaf \in Leaves}

DetectInit ==
    /\ NormIdle /\ StdIdle /\ MemIdle /\ BatchIdle /\ PipeIdle /\ SplitIdle /\ CsvIdle /\ TestIdle /\ ValIdle
    /\ file_path \in Paths(MaxDepth)
    /\ detections = <<>>

DetectFileType ==
    /\ Len(detections) < 2
    /\ detections' = Append(detections, detect_file_type(file_path))
    /\ UNCHANGED <<testVars, valVars, splitVars, csvVars, file_path, normVars, stdVars, memVars, batchVars, pipeVars>>

SpecDetect == DetectInit /\ [][DetectFileType]_vars

(***************************************************************************)
(* Spec: process_all over a content directory.                             *)
(***************************************************************************)
content_dir == "/Content"
\* the paths a content directory may hold, in the order sorted() gives them
AllPaths ==
    << "/Content/LineWork/a.json", "/Content/Misc/a.json",
       "/Content/Patterns/8th_keup_patterns.json", "/Content/Patterns/9th_keup_patterns.json",
       "/Content/Patterns/a.json",
       "/Content/StepSparring/a.json", "/Content/Techniques/a.json",
       "/Content/Terminology/a.json", "/Content/Theory/a.json",
       "/Content/VocabularyBuilder/a.json" >>

\* the top-level collection a standardize_* method looks for
CollectionKey(file_type) ==
    CASE file_type = "terminology" -> "terminology"
      [] file_type = "techniques" -> "techniques"
      [] file_type = "linework" -> "techniques"
      [] file_type = "patterns" -> "patterns"
      [] file_type = "stepsparring" -> "sequences"
      [] file_type = "theory" -> "theory_sections"
      [] file_type = "vocabulary" -> "words"

\* an item of that collection, in the naming the method migrates from
LegacyItem(file_type) ==
    CASE file_type = "terminology" -> LegacyNode(terminology_mapping)
      [] file_type = "techniques" ->
            Dict(<< <<"id", Str("a")>>, <<"names", LegacyNode(techniques_mapping)>> >>)
      [] file_type = "linework" -> Dict(<< <<"id", Str("a")>>, <<"english", Str("b")>> >>)
      [] file_type = "patterns" ->
            WithKey(LegacyNode(pattern_mapping), "moves", List(<<LegacyNode(move_mapping)>>))
      [] file_type = "stepsparring" ->
            Dict(<< <<"id", Str("a")>>,
                    <<"steps", List(<<Dict(<< <<"attack", LegacyNode(action_mapping)>> >>)>>)>> >>)
      [] file_type = "theory" ->
            Dict(<< <<"id", Str("a")>>,
                    <<"content", Dict(<< <<"tenets", List(<<LegacyNode(theory_mapping)>>)>> >>)>> >>)
      [] file_type = "vocabulary" -> LegacyNode(vocabulary_mapping)

LegacyDoc(file_type) ==
    Dict(<< <<"belt_level", Str("a")>>, <<CollectionKey(file_type), List(<<LegacyItem(file_type)>>)>> >>)
\* the same document in the target naming
MigratedDoc(file_type) == Standardize(file_type, LegacyDoc(file_type), FALSE).data
\* a document without its collection, and one whose collection is no array
BareDoc == Dict(<< <<"belt_level", Str("a")>> >>)
ScalarDoc(file_type) == Dict(<< <<CollectionKey(file_type), Num(0)>> >>)

\* what the file at a path may hold; a file of no known type holds what a
\* Terminology file holds
Kinds == {"unparsable", "legacy", "migrated", "bare", "scalar"}
ContentAt(path_str, kind) ==
    LET file_type == IF detect_file_type(path_str) = "unknown" THEN "terminology"
                     ELSE detect_file_type(path_str) IN
    CASE kind = "unparsable" -> Unparsable
      [] kind = "legacy" -> File(LegacyDoc(file_type))
      [] kind = "migrated" -> File(MigratedDoc(file_type))
      [] kind = "bare" -> File(BareDoc)
      [] kind = "scalar" -> File(ScalarDoc(file_type))

\* the files main() of chon_ji_dan_gun_corrections.py corrects
ChonJiFiles == {PathJoin(patterns_dir, "9th_keup_patterns.json"),
                PathJoin(patterns_dir, "8th_keup_patterns.json")}
\* the sets of at most MaxFiles paths, one file to a directory
PathSets ==
    {T \in SUBSET ({AllPaths[i] : i \in 1..Len(AllPaths)} \ ChonJiFiles) :
        Cardinality(T) >= 1 /\ Cardinality(T) <= MaxFiles}

Init ==
    /\ NormIdle /\ MemIdle /\ DetIdle
    /\ dry_run \in BOOLEAN
    /\ verbose = FALSE
    /\ stats = [properties_renamed |-> 0, empty_fields_removed |-> 0,
                files_written |-> 0, files_analyzed |-> 0]
    /\ changes_log = <<>>
    /\ \E S \in PathSets : \E kinds \in [S -> Kinds] :
          files = [q \in S |-> ContentAt(q, kinds[q])]
    /\ initial = files
    /\ json_files = <<>>
    /\ results = <<>>
    /\ written = <<>>
    /\ summary = <<>>
    /\ pc = "start"
    /\ PipeIdle /\ SplitIdle /\ CsvIdle /\ TestIdle /\ ValIdle

\* sorted(self.content_dir.rglob('*.json'))
SortedJsonFiles(store) ==
    LET Found(q) == q \in DOMAIN store /\ EndsWith(q, ".json") IN SelectSeq(AllPaths, Found)
\* file_path.relative_to(self.content_dir)
relative_to(path_str, dir) == SubSeq(path_str, Len(dir) + 2, Len(path_str))
\* sum(1 for _, success, _ in results if success == flag)
CountResults(rs, flag) == LET Flagged(r) == r.success = flag IN Len(SelectSeq(rs, Flagged))

\* process_all up to its loop (lines 261-272)
ListFiles ==
    /\ pc = "start"
    /\ json_files' = SortedJsonFiles(files)
    /\ pc' = "loop"
    /\ UNCHANGED <<testVars, valVars, splitVars, csvVars, normVars, stdVars, memVars, detVars, pipeVars, files, initial, results, written, summary>>

\* the effects of process_file on q, and of the loop body around it
Processed(q, r) ==
       /\ stats' = [stats EXCEPT !.properties_renamed = @ + r.renamed,
                                 !.empty_fields_removed = @ + r.removed,
                                 !.files_written = @ + (IF r.write THEN 1 ELSE 0),
                                 !.files_analyzed = @ + (IF r.success /\ ~r.write THEN 1 ELSE 0)]
       /\ changes_log' = changes_log \o r.log
       /\ files' = IF r.write THEN [files EXCEPT ![q] = json_dump_newline(r.data)] ELSE files
       /\ written' = IF r.write THEN Append(written, q) ELSE written
       /\ results' = Append(results, [rel_path |-> relative_to(q, content_dir), path |-> q,
                                       success |-> r.success, message |-> r.message,
                                       renamed |-> r.renamed, removed |-> r.removed])

\* one round of the loop of process_all (lines 273-279)
ProcessFile ==
    /\ pc = "loop"
    /\ Len(results) < Len(json_files)
    /\ Processed(json_files[Len(results) + 1],
                 process_file(files[json_files[Len(results) + 1]], json_files[Len(results) + 1],
                              dry_run, verbose))
    /\ UNCHANGED <<testVars, valVars, splitVars, csvVars, normVars, dry_run, verbose, memVars, detVars, pipeVars, initial, json_files, summary, pc>>

\* the summary and the failures process_all prints (lines 281-302)
Summary ==
    /\ pc = "loop"
    /\ Len(results) = Len(json_files)
    /\ summary' = [total |-> Len(json_files),
                   successful |-> CountResults(results, TRUE),
                   failed |-> CountResults(results, FALSE),
                   properties_renamed |-> stats.properties_renamed,
                   empty_fields_removed |-> stats.empty_fields_removed,
                   files |-> IF dry_run THEN stats.files_analyzed ELSE stats.files_written,
                   failures |-> LET Failed(r) == ~r.success IN SelectSeq(results, Failed)]
    /\ pc' = "done"
    /\ UNCHANGED <<testVars, valVars, splitVars, csvVars, normVars, stdVars, memVars, detVars, pipeVars, files, initial, json_files, results, written>>

Next ==
    \/ ListFiles
    \/ ProcessFile
    \/ Summary

Spec == Init /\ [][Next]_vars

(***************************************************************************)
(* SpecPipeline: the stages over a Patterns directory: process_all of the  *)
(* standardizer, apply_corrections of the Chon-Ji/Dan-Gun corrector on a   *)
(* file, apply_corrections of the pattern updater; the correction stages   *)
(* run before the migration or after it.                                   *)
(***************************************************************************)
\* moves without their number; the last one has a stance in which removing
\* 'Right ' brings 'Right ' together again
MoveBodies ==
    {<< <<"stance", Str(st)>>, <<"technique", Str(te)>> >> \o tg :
        st \in {"Walking Stance", "Right L Stance"},
        te \in {"Low Outer Forearm Block", "High Observe Punch", "Obverse Punch"},
        tg \in {<<>>, << <<"target", Str("solar plexus")>> >>}}
        \cup {<< <<"stance", Str("Right RigRight ht Stance")>>, <<"technique", Str("Obverse Punch")>> >>}
\* the moves of a pattern, numbered from 1
MoveLists ==
    {Tuple([i \in 1..Len(l) |-> Dict(<< <<"move_number", Num(i)>> >> \o l[i])]) :
        l \in (Lists(MoveBodies, MaxMoves) \ {<<>>})}
PatternFileDocs ==
    {Dict(<< <<"belt_level", Str("a")>>,
             <<"patterns", List(<<Dict(<< <<"name", Str(nm)>>, <<"moves", List(ms)>> >>)>>)>> >>) :
        nm \in {"Chon-Ji", "Dan-Gun", "Do-San"}, ms \in MoveLists}
\* what the 8th keup file holds when there is one
OtherFile ==
    File(Dict(<< <<"patterns",
                   List(<<Dict(<< <<"name", Str("Dan-Gun")>>,
                                  <<"moves", List(<<Dict(<< <<"move_number", Num(1)>>,
                                                            <<"technique", Str("Rising Block")>> >>)>>)>> >>)>>)>> >>))
PatternStores ==
    LET ninth == PathJoin(patterns_dir, "9th_keup_patterns.json")
        eighth == PathJoin(patterns_dir, "8th_keup_patterns.json")
    IN {[q \in {ninth} |-> File(d)] : d \in PatternFileDocs}
           \cup {[q \in {ninth, eighth} |-> IF q = ninth THEN File(d) ELSE c] :
                     d \in PatternFileDocs, c \in {Unparsable, OtherFile}}

\* rows of a correction table, as load_corrections stores them
Row1 == [direction |-> "North", movement |-> "90", stance |-> "L Stance",
         technique |-> "Obverse Punch", target |-> "Middle Section"]
Row2 == [direction |-> "", movement |-> "-", stance |-> "Walking Stance",
         technique |-> "Rising Block", target |-> ""]
Tables ==
    {<<>>,
     << <<"Dan Gun_1", Row1>> >>,
     << <<"Chon Ji_1", Row1>>, <<"Do San_1", Row2>>, <<"Chon Ji_2", Row2>> >>}

\* the orders os.listdir may return the files of a store in
Listings(store) ==
    {l \in [1..Cardinality(DOMAIN store) -> DOMAIN store] :
        \A i, j \in 1..Cardinality(DOMAIN store) : i # j => l[i] # l[j]}

PipelineInit ==
    /\ NormIdle /\ MemIdle /\ DetIdle /\ StdIdle /\ SplitIdle /\ CsvIdle /\ TestIdle /\ ValIdle
    /\ files \in PatternStores
    /\ initial = files
    /\ json_files = <<>>
    /\ results = <<>>
    /\ written = <<>>
    /\ summary = <<>>
    /\ pc = "start"
    /\ corrections \in Tables
    /\ updates_applied = 0
    /\ patterns_updated = {}
    /\ corrections_applied = <<>>
    /\ stages = <<>>

\* the effects of ChonJiDanGunCorrector.apply_corrections on the file at q
\* (lines 38-51), r what it made of the data
ChonJiApplied(q, r) ==
    /\ files' = IF r.made THEN [files EXCEPT ![q] = json_dump(r.data)] ELSE files
    /\ written' = IF r.made THEN Append(written, q) ELSE written
    /\ corrections_applied' = IF r.made THEN corrections_applied \o r.corrections
                              ELSE corrections_applied
    /\ stages' = Append(stages, [stage |-> "chon_ji", phase |-> pc, path |-> q,
                                 returned |-> r.made, wrote |-> r.made,
                                 corrections |-> r.corrections])

ChonJiApply ==
    /\ pc \in {"start", "done"}
    /\ Len(stages) < MaxStages
    /\ \E q \in ChonJiFiles \cap DOMAIN files :
           ChonJiApplied(q, ChonJiDanGunCorrector_apply_corrections(files[q]))
    /\ UNCHANGED <<testVars, valVars, splitVars, csvVars, normVars, stdVars, memVars, detVars, initial, json_files, results, summary, pc,
                   corrections, updates_applied, patterns_updated>>

\* the effects of PatternUpdater.apply_corrections, r the state it ends in
UpdaterApplied(r) ==
    /\ files' = r.files
    /\ written' = r.written
    /\ updates_applied' = r.updates_applied
    /\ patterns_updated' = r.patterns_updated
    /\ stages' = Append(stages, [stage |-> "updater", phase |-> pc, log |-> r.log,
                                 wrote |-> Len(r.written) > Len(written),
                                 changes |-> r.changes])

\* a run of the updater on the table loaded
UpdaterApply ==
    /\ pc \in {"start", "done"}
    /\ Len(stages) < MaxStages
    /\ \E listing \in Listings(files) :
           UpdaterApplied(PatternUpdater_apply_corrections(
                              UpdaterState(files, written, 0, {}, <<>>), corrections, listing))
    /\ UNCHANGED <<testVars, valVars, splitVars, csvVars, normVars, stdVars, memVars, detVars, initial, json_files, results, summary, pc,
                   corrections, corrections_applied>>

PipelineNext ==
    \/ ListFiles
    \/ ProcessFile
    \/ Summary
    \/ ChonJiApply
    \/ UpdaterApply

SpecPipeline == PipelineInit /\ [][PipelineNext]_vars

(***************************************************************************)
(* SpecUpdater: main() of update_patterns_from_csv.py (lines 245-256) on a *)
(* correction table and a Patterns directory: load_corrections,            *)
(* apply_corrections, generate_report; an exception that reaches main ends *)
(* the run with exit status 1.                                             *)
(***************************************************************************)
\* move 4 of Dan-Gun with the typo of its technique, and a move 4 that lacks
\* its direction and its target
Move4Typo ==
    Dict(<< <<"move_number", Num(4)>>, <<"direction", Str("N")>>, <<"movement", Str("-")>>,
            <<"stance", Str("Walking Stance")>>, <<"technique", Str("High Observe Punch")>>,
            <<"target", Str("High Section")>> >>)
Move4Bare ==
    Dict(<< <<"move_number", Num(4)>>, <<"movement", Str("Left 90°")>>,
            <<"stance", Str("L-stance")>>, <<"technique", Str("High Obverse Punch")>> >>)
\* a file of one pattern
OnePattern(name, moves) ==
    File(Dict(<< <<"belt_level", Str("a")>>,
                 <<"patterns", List(<<Dict(<< <<"name", Str(name)>>, <<"moves", List(moves)>> >>)>>)>> >>))
\* a file of the two patterns Hwa-Rang and Choong-Moo
TwoPatterns(moves) ==
    File(Dict(<< <<"patterns",
                   List(<<Dict(<< <<"name", Str("Hwa-Rang")>>,
                                  <<"moves", List(<<Dict(<< <<"move_number", Num(1)>>,
                                                            <<"technique", Str("a")>> >>)>>)>> >>),
                          Dict(<< <<"name", Str("Choong-Moo")>>, <<"moves", List(moves)>> >>)>>)>> >>))
UpdaterStores ==
    LET eighth == PathJoin(patterns_dir, "8th_keup_patterns.json")
        dan == PathJoin(patterns_dir, "1st_dan_patterns.json")
        dan_gun == {OnePattern("Dan-Gun", <<m>>) : m \in {Move4Typo, Move4Bare}}
        first_dan == {TwoPatterns(<<Dict(<< <<"move_number", Str("1")>>, <<"technique", Str("b")>> >>)>>),
                      TwoPatterns(<<Dict(<< <<"technique", Str("b")>> >>)>>),
                      Unparsable}
    IN {[q \in {eighth} |-> d] : d \in dan_gun}
           \cup {[q \in {eighth, dan} |-> IF q = eighth THEN d ELSE e] : d \in dan_gun, e \in first_dan}

\* the lines of a correction table: the cells of a line, in the order of the header
CsvLines ==
    {<<"Dan Gun", "4", "N", "-", "Walking Stance", "High Obverse Punch", "High Section">>,
     <<"Dan Gun", " 04 ", "N", "90", "L Stance", "High Obverse Punch", "">>,
     <<"Dan Gun", "5", "N", "-", "Walking Stance", "Rising Block", "">>,
     <<"Do San", "1", "N", "-", "Walking Stance", "Rising Block", "">>,
     <<"Hwa Rang", "1", "N", "180", "Sitting Stance", "a", "">>,
     <<"Choong Moo", "1", "", "-", "L Stance", "b ", "Middle Section">>,
     <<"Dan Gun", "x", "N", "-", "Walking Stance", "Rising Block", "">>,
     <<"Hwa Rang", "1", "N">>}
\* the tables of at most MaxRows lines, under the full header or one without Target
CsvTables ==
    {[fieldnames |-> h, lines |-> l] :
        h \in {required_columns, SubSeq(required_columns, 1, 6)}, l \in Lists(CsvLines, MaxRows)}

UpdaterInit ==
    /\ NormIdle /\ StdIdle /\ MemIdle /\ DetIdle /\ SplitIdle /\ TestIdle /\ ValIdle
    /\ files \in UpdaterStores
    /\ initial = files
    /\ json_files = <<>>
    /\ results = <<>>
    /\ written = <<>>
    /\ summary = <<>>
    /\ pc = "start"
    /\ PipeIdle
    /\ csv_file \in CsvTables
    /\ run = "start"
    /\ report = <<>>

\* the effects of load_corrections, r what it made of the table: main ends the
\* run when it raised
Loaded(r) ==
    /\ corrections' = r.corrections
    /\ run' = IF r.raised THEN "failed" ELSE "loaded"

LoadCorrections ==
    /\ run = "start"
    /\ Loaded(load_corrections(csv_file))
    /\ UNCHANGED <<testVars, valVars, normVars, stdVars, memVars, detVars, batchVars, splitVars, csv_file, report,
                   updates_applied, patterns_updated, corrections_applied, stages>>

ApplyCorrections ==
    /\ run = "loaded"
    /\ \E listing \in Listings(files) :
           UpdaterApplied(PatternUpdater_apply_corrections(
                              UpdaterState(files, written, updates_applied, patterns_updated, <<>>),
                              corrections, listing))
    /\ run' = "applied"
    /\ UNCHANGED <<testVars, valVars, normVars, stdVars, memVars, detVars, splitVars, csv_file, report,
                   initial, json_files, results, summary, pc, corrections, corrections_applied>>

GenerateReport ==
    /\ run = "applied"
    /\ report' = generate_report(corrections, updates_applied, patterns_updated)
    /\ run' = "complete"
    /\ UNCHANGED <<testVars, valVars, normVars, stdVars, memVars, detVars, batchVars, pipeVars, splitVars, csv_file>>

UpdaterNext ==
    \/ LoadCorrections
    \/ ApplyCorrections
    \/ GenerateReport

SpecUpdater == UpdaterInit /\ [][UpdaterNext]_vars

(***************************************************************************)
(* SpecSplit: _split_technique_target on the technique and the target of a *)
(* move, called again on the pair it returned (the corrector stores the    *)
(* pair in the move and a later run reads it back).                        *)
(***************************************************************************)
SplitTechniques ==
    {Str(SplitTable[i][1]) : i \in 1..Len(SplitTable)}
        \cup {Str("Front Kick"), Str("low outer forearm block"), Str("Obverse Punch"),
              Str("Rising Block "), Str("High Observe Punch"), Str("")}
SplitTargets ==
    {Str(""), Str("null"), Null, Str("middle section"), Str("Middle Section"),
     Str("LOW SECTION"), Str("Lower Section"), Str("Solar Plexus"), Str("upper section"),
     Str("High section"), Str("Head Level"), Str("head"), Str("Low  Section"),
     Str("Solar Plexus "), Str("Null")}

SplitInit ==
    /\ NormIdle /\ StdIdle /\ MemIdle /\ DetIdle /\ BatchIdle /\ PipeIdle /\ CsvIdle /\ TestIdle /\ ValIdle
    /\ move_technique \in SplitTechniques
    /\ move_target \in SplitTargets
    /\ splits = <<>>

\* new_technique, new_target = self._split_technique_target(technique, target, move_num)
\* and the two values stored in the move (lines 86-106)
Returned(pair) ==
    /\ splits' = Append(splits, [technique |-> move_technique, current_target |-> move_target,
                                 new_technique |-> pair[1], new_target |-> pair[2]])
    /\ move_technique' = pair[1]
    /\ move_target' = pair[2]

SplitTechniqueTarget ==
    /\ Len(splits) < MaxCalls
    /\ Returned(_split_technique_target(move_technique, move_target))
    /\ UNCHANGED <<testVars, valVars, normVars, stdVars, memVars, detVars, batchVars, pipeVars, csvVars>>

SplitNext == SplitTechniqueTarget

SpecSplit == SplitInit /\ [][SplitNext]_vars

(***************************************************************************)
(* SpecStandardize: standardize_values on a correction that                *)
(* load_corrections made of a row, and then on what it returned.           *)
(***************************************************************************)
Directions == {"N", " E "}
Movements ==
    {"-", "90", "45", "180°", "Left 90", " 270 ", "Left 90°", "90° Left", "", "Forward"}
Stances ==
    {"L Stance", "Left L Stance", "Walking Stance", "L-Stance", "Right-L Stance",
     " Sitting Stance"}
Techniques == {"Low Block", " Punch "}
Targets == {"", " Middle Section "}
TableRow(direction, movement, stance, technique, target) ==
    << <<"Pattern", Str("Dan Gun")>>, <<"Move", Str("1")>>, <<"Direction", Str(direction)>>,
       <<"Movement", Str(movement)>>, <<"Stance", Str(stance)>>, <<"Technique", Str(technique)>>,
       <<"Target", Str(target)>> >>

StandardizeInit ==
    /\ NormIdle /\ StdIdle /\ MemIdle /\ DetIdle /\ BatchIdle /\ PipeIdle /\ SplitIdle
    /\ CsvIdle /\ TestIdle
    /\ \E d \in Directions, m \in Movements, s \in Stances, t \in Techniques, g \in Targets :
          a_row = TableRow(d, m, s, t, g)
    /\ a_correction = RowCorrection(a_row)
    /\ standardized = <<>>

\* self.standardize_values(correction), on the loaded correction and then on
\* its own result
StandardizeValues ==
    /\ Len(standardized) < MaxCalls
    /\ standardized' = Append(standardized,
                              standardize_values(IF Len(standardized) = 0 THEN a_correction
                                                 ELSE standardized[Len(standardized)]))
    /\ UNCHANGED <<normVars, stdVars, memVars, detVars, batchVars, pipeVars, splitVars, csvVars,
                   testVars, a_row, a_correction>>

StandardizeNext == StandardizeValues

SpecStandardize == StandardizeInit /\ [][StandardizeNext]_vars

(***************************************************************************)
(* SpecKorean: process_all_patterns of the romanization corrector over a   *)
(* Patterns directory.                                                     *)
(***************************************************************************)
KoreanMoveBodies ==
    {<< <<"technique", Str(te)>> >> \o ko \o << <<"stance", Str("Walking Stance")>> >> :
        te \in {"Obverse Punch", "Spin Kick"},
        ko \in {<<>>, << <<"korean_technique", Str("Baro Jirugi")>> >>,
                << <<"korean_technique", Str("Jirugi")>> >>}}
KoreanMoveLists ==
    {Tuple([i \in 1..Len(l) |-> Dict(<< <<"move_number", Num(i)>> >> \o l[i])]) :
        l \in (Lists(KoreanMoveBodies, MaxMoves) \ {<<>>})}
\* a pattern whose moves are not objects
BrokenPattern == Dict(<< <<"name", Str("Dan-Gun")>>, <<"moves", List(<<Num(0)>>)>> >>)
KoreanDocs ==
    {Dict(<< <<"belt_level", Str("a")>>,
             <<"patterns", List(<<Dict(<< <<"name", Str("Chon-Ji")>>, <<"moves", List(ms)>> >>)>>
                                 \o rest)>> >>) :
        ms \in KoreanMoveLists, rest \in {<<>>, <<BrokenPattern>>}}
KoreanOther ==
    File(Dict(<< <<"patterns",
                   List(<<Dict(<< <<"name", Str("Dan-Gun")>>,
                                  <<"moves", List(<<Dict(<< <<"move_number", Num(1)>>,
                                                            <<"technique", Str("Rising Block")>>,
                                                            <<"korean_technique", Str("a")>> >>)>>)>> >>)>>)>> >>))
KoreanStores ==
    LET ninth == PathJoin(patterns_dir, "9th_keup_patterns.json")
        eighth == PathJoin(patterns_dir, "8th_keup_patterns.json")
        plain == PathJoin(patterns_dir, "a.json")
    IN {[q \in {ninth} |-> File(d)] : d \in KoreanDocs}
           \cup {[q \in {ninth, eighth} |-> IF q = ninth THEN File(d) ELSE c] :
                     d \in KoreanDocs, c \in {Unparsable, KoreanOther}}
           \cup {[q \in {ninth, plain} |-> IF q = ninth THEN File(d) ELSE KoreanOther] :
                     d \in KoreanDocs}

KoreanInit ==
    /\ NormIdle /\ StdIdle /\ MemIdle /\ DetIdle /\ SplitIdle /\ CsvIdle /\ TestIdle /\ ValIdle
    /\ files \in KoreanStores
    /\ initial = files
    /\ json_files = <<>>
    /\ results = <<>>
    /\ written = <<>>
    /\ summary = <<>>
    /\ pc = "start"
    /\ PipeIdle

\* sorted(patterns_path.glob("*_patterns.json"))
SortedPatternFiles(store) ==
    LET Found(q) ==
            /\ q \in DOMAIN store
            /\ StartsWith(q, patterns_dir \o "/")
            /\ EndsWith(q, "_patterns.json")
    IN SelectSeq(AllPaths, Found)

\* process_all_patterns up to its loop (lines 194-212): it returns when it
\* finds no pattern file
KoreanListFiles ==
    /\ pc = "start"
    /\ json_files' = SortedPatternFiles(files)
    /\ pc' = IF SortedPatternFiles(files) = <<>> THEN "done" ELSE "loop"
    /\ UNCHANGED <<testVars, valVars, splitVars, csvVars, normVars, stdVars, memVars, detVars, pipeVars, files, initial, results, written, summary>>

\* the effects of correct_korean_romanizations on the file at q (lines
\* 170-192), r what it made of the data
KoreanCorrected(q, r) ==
    /\ files' = IF r.made THEN [files EXCEPT ![q] = json_dump(r.data)] ELSE files
    /\ written' = IF r.made THEN Append(written, q) ELSE written
    /\ corrections_applied' = IF r.made THEN corrections_applied \o r.corrections
                              ELSE corrections_applied
    /\ results' = Append(results, [path |-> q, returned |-> r.made, raised |-> r.raised,
                                   corrections |-> r.corrections])

\* one round of the loop of process_all_patterns (lines 214-223)
KoreanCorrectFile ==
    /\ pc = "loop"
    /\ Len(results) < Len(json_files)
    /\ KoreanCorrected(json_files[Len(results) + 1],
                       correct_korean_romanizations(files[json_files[Len(results) + 1]]))
    /\ UNCHANGED <<testVars, valVars, splitVars, csvVars, normVars, stdVars, memVars, detVars, initial, json_files, summary, pc,
                   corrections, updates_applied, patterns_updated, stages>>

\* the summary process_all_patterns prints (lines 225-238)
KoreanSummary ==
    /\ pc = "loop"
    /\ Len(results) = Len(json_files)
    /\ summary' = [files_processed |-> Len(json_files),
                   files_updated |-> LET Updated_(r) == r.returned IN Len(SelectSeq(results, Updated_)),
                   total_corrections |-> Len(corrections_applied)]
    /\ pc' = "done"
    /\ UNCHANGED <<testVars, valVars, splitVars, csvVars, normVars, stdVars, memVars, detVars, pipeVars, files, initial, json_files, results, written>>

KoreanNext ==
    \/ KoreanListFiles
    \/ KoreanCorrectFile
    \/ KoreanSummary

SpecKorean == KoreanInit /\ [][KoreanNext]_vars

(***************************************************************************)
(* SpecLineWork: LineWorkProcessor.to_title_case on the name of a          *)
(* technique, and then on its own result.                                  *)
(***************************************************************************)
\* names that hold a special case, as it is keyed or title-cased, or none
LineWorkNames ==
    {pre \o mid \o post :
        pre \in {"", "twin ", "Twin "},
        mid \in {special_cases[i][1] : i \in 1..Len(special_cases)}
                   \cup {Title(special_cases[i][1]) : i \in 1..Len(special_cases)}
                   \cup {"knife hand"},
        post \in {"", " and punch", " Block"}}

LineWorkInit ==
    /\ text \in LineWorkNames
    /\ prev = ""
    /\ runs = 0
    /\ StdIdle /\ MemIdle /\ DetIdle /\ BatchIdle /\ PipeIdle /\ SplitIdle /\ CsvIdle /\ TestIdle /\ ValIdle

LineWorkTitleCase ==
    /\ runs < MaxCalls
    /\ text' = LineWorkProcessor_to_title_case(text)
    /\ prev' = text
    /\ runs' = runs + 1
    /\ UNCHANGED <<testVars, valVars, splitVars, csvVars, stdVars, memVars, detVars, batchVars, pipeVars>>

LineWorkNext == LineWorkTitleCase

SpecLineWork == LineWorkInit /\ [][LineWorkNext]_vars

(***************************************************************************)
(* SpecDryRun: the migration of a content directory by process_all of the  *)
(* standardizer, then process_all of TestCodingKeysUpdater on the Swift    *)
(* tests that read the migrated files; each script has its own --dry-run.  *)
(***************************************************************************)
\* lines of Swift test files: a case of each kind of pattern, a property
\* access, a quoted name, and the struct that puts a file in Pattern context
TestPieces ==
    {"case koreanName = \"korean_name\"", "case\n  englishTerm=\"english_term\"",
     "case pronunciation = \"pronunciation\"", "case koreanTechnique  = \"korean_technique\"",
     "x.romanized", "\"romanized\"", "struct PatternJSON"}
RECURSIVE JoinLines(_)
JoinLines(l) ==
    IF Len(l) = 0 THEN "" ELSE IF Len(l) = 1 THEN l[1] ELSE l[1] \o "\n" \o JoinLines(Tail(l))
TestTexts == {JoinLines(l) : l \in Lists(TestPieces, MaxLines)}
\* the names a tests directory may hold, in the order sorted() gives them
TestNames == <<"PatternTests.swift", "TermTests.swift", "VocabularyTests.swift">>
\* a tests directory of one file, or of two
TestStores ==
    {[n \in {TestNames[i]} |-> t] : i \in 1..Len(TestNames), t \in TestTexts}
        \cup {[n \in {"TermTests.swift", "VocabularyTests.swift"} |->
                  IF n = "TermTests.swift" THEN t ELSE "x.romanized\n\"romanized\""] :
                 t \in TestPieces}
\* a content directory with a file to migrate, a migrated one and one of no type
DryRunStore ==
    [q \in {"/Content/Misc/a.json", "/Content/Patterns/a.json", "/Content/Terminology/a.json"} |->
        ContentAt(q, IF q = "/Content/Patterns/a.json" THEN "migrated" ELSE "legacy")]

DryRunInit ==
    /\ NormIdle /\ MemIdle /\ DetIdle /\ PipeIdle /\ SplitIdle /\ CsvIdle /\ ValIdle
    /\ dry_run \in BOOLEAN
    /\ verbose = FALSE
    /\ stats = [properties_renamed |-> 0, empty_fields_removed |-> 0,
                files_written |-> 0, files_analyzed |-> 0]
    /\ changes_log = <<>>
    /\ files = DryRunStore
    /\ initial = files
    /\ json_files = <<>>
    /\ results = <<>>
    /\ written = <<>>
    /\ summary = <<>>
    /\ pc = "start"
    /\ tests_dry_run \in BOOLEAN
    /\ test_files \in TestStores
    /\ test_initial = test_files
    /\ test_written = <<>>
    /\ test_stats = [files_processed |-> 0, files_modified |-> 0, replacements_made |-> 0]
    /\ test_results = <<>>

\* sorted(test_files)
SortedTestFiles(store) == LET Found(n) == n \in DOMAIN store IN SelectSeq(TestNames, Found)

\* the effects of update_file on the file named n, r what it returned, and of
\* the loop body of process_all around it (lines 136-138)
FileUpdatedIn(n, r) ==
    /\ test_files' = IF r.write THEN [test_files EXCEPT ![n] = r.content] ELSE test_files
    /\ test_written' = IF r.write THEN Append(test_written, n) ELSE test_written
    /\ test_stats' = [files_processed |-> test_stats.files_processed + 1,
                      files_modified |-> test_stats.files_modified + (IF r.write THEN 1 ELSE 0),
                      replacements_made |-> test_stats.replacements_made + r.replacement_count]
    /\ test_results' = Append(test_results, [name |-> n, was_modified |-> r.was_modified,
                                             replacement_count |-> r.replacement_count])

\* one round of the loop of TestCodingKeysUpdater.process_all (lines 135-138)
UpdateFile ==
    /\ pc = "done"
    /\ Len(test_results) < Len(SortedTestFiles(test_files))
    /\ FileUpdatedIn(SortedTestFiles(test_files)[Len(test_results) + 1],
                     update_file(SortedTestFiles(test_files)[Len(test_results) + 1],
                                 test_files[SortedTestFiles(test_files)[Len(test_results) + 1]],
                                 tests_dry_run))
    /\ UNCHANGED <<normVars, stdVars, memVars, detVars, batchVars, pipeVars, splitVars, csvVars,
                   valVars, tests_dry_run, test_initial>>

DryRunNext ==
    \/ ListFiles
    \/ ProcessFile
    \/ Summary
    \/ UpdateFile

SpecDryRun == DryRunInit /\ [][DryRunNext]_vars

(***************************************************************************)
(* SpecTitle: main of fix-title-case.py over a content directory.  pc is   *)
(* "failed" once an exception has left main.                               *)
(***************************************************************************)
\* base_path / 'VocabularyBuilder' / 'vocabulary_words.json'
vocabulary_path == PathJoin(PathJoin(content_dir, "VocabularyBuilder"), "vocabulary_words.json")
\* the files main looks at, in the order it reaches them (lines 192-212)
TitlePaths ==
    << "/Content/Terminology/a.json", "/Content/Terminology/b.json",
       "/Content/Techniques/a.json", vocabulary_path >>
TitleKinds == {"unparsable", "lower", "titled", "bare", "scalar"}
TitleKey(path_str) ==
    IF Substring("/Terminology/", path_str) THEN "terminology"
    ELSE IF Substring("/Techniques/", path_str) THEN "techniques"
    ELSE "words"
TitleNames(english) ==
    Dict(<< <<"english", Str(english)>>, <<"romanised", Str("Ap Seogi")>>, <<"id", Num(1)>> >>)
TitleDoc(path_str, english) ==
    Dict(<< <<TitleKey(path_str),
              List(<< IF TitleKey(path_str) = "techniques"
                      THEN Dict(<< <<"names", TitleNames(english)>> >>)
                      ELSE TitleNames(english) >>)>> >>)
TitleContentAt(path_str, kind) ==
    CASE kind = "unparsable" -> Unparsable
      [] kind = "lower" -> File(TitleDoc(path_str, "low block"))
      [] kind = "titled" -> File(TitleDoc(path_str, "Low Block"))
      [] kind = "bare" -> File(BareDoc)
      [] kind = "scalar" -> File(Dict(<< <<TitleKey(path_str), Num(0)>> >>))
TitlePathSets ==
    {T \in SUBSET {TitlePaths[i] : i \in 1..Len(TitlePaths)} :
        Cardinality(T) >= 1 /\ Cardinality(T) <= MaxFiles}

TitleInit ==
    /\ NormIdle /\ StdIdle /\ MemIdle /\ DetIdle
    /\ \E S \in TitlePathSets : \E kinds \in [S -> TitleKinds] :
          files = [q \in S |-> TitleContentAt(q, kinds[q])]
    /\ initial = files
    /\ json_files = <<>>
    /\ results = <<>>
    /\ written = <<>>
    /\ summary = <<>>
    /\ pc = "start"
    /\ PipeIdle /\ SplitIdle /\ CsvIdle /\ TestIdle /\ ValIdle

\* sorted(terminology_path.glob('*.json')), sorted(techniques_path.glob('*.json'))
\* and the vocabulary file if it exists
TitleFiles(store) == LET Found(q) == q \in DOMAIN store IN SelectSeq(TitlePaths, Found)
\* the fix_*_file function main calls on a path
fix_file(path_str, content) ==
    CASE TitleKey(path_str) = "terminology" -> fix_terminology_file(content)
      [] TitleKey(path_str) = "techniques" -> fix_techniques_file(content)
      [] OTHER -> fix_vocabulary_file(content)

\* main up to its first loop (lines 188-195)
TitleStart ==
    /\ pc = "start"
    /\ json_files' = TitleFiles(files)
    /\ pc' = "loop"
    /\ UNCHANGED <<testVars, valVars, splitVars, csvVars, normVars, stdVars, memVars, detVars, pipeVars, files, initial, results, written, summary>>

\* the effects of a fix_*_file call on q that returned r, or raised
TitleFixed(q, r) ==
    /\ files' = IF r.changed THEN [files EXCEPT ![q] = json_dump_newline(r.data)] ELSE files
    /\ written' = IF r.changed THEN Append(written, q) ELSE written
    /\ results' = IF r.raised THEN results ELSE Append(results, [path |-> q, changed |-> r.changed])
    /\ pc' = IF r.raised THEN "failed" ELSE pc

\* one call of a fix_*_file function from main (lines 196-198, 204-206, 211-213)
TitleFixFile ==
    /\ pc = "loop"
    /\ Len(results) < Len(json_files)
    /\ TitleFixed(json_files[Len(results) + 1],
                  fix_file(json_files[Len(results) + 1], files[json_files[Len(results) + 1]]))
    /\ UNCHANGED <<testVars, valVars, splitVars, csvVars, normVars, stdVars, memVars, detVars, pipeVars, initial, json_files, summary>>

\* print(f"Complete! {total_changed} files modified")   (line 215)
TitleComplete ==
    /\ pc = "loop"
    /\ Len(results) = Len(json_files)
    /\ summary' = [total_changed |-> LET Changed(r) == r.changed IN Len(SelectSeq(results, Changed))]
    /\ pc' = "done"
    /\ UNCHANGED <<testVars, valVars, splitVars, csvVars, normVars, stdVars, memVars, detVars, pipeVars, files, initial, json_files, results, written>>

TitleNext ==
    \/ TitleStart
    \/ TitleFixFile
    \/ TitleComplete

SpecTitle == TitleInit /\ [][TitleNext]_vars

(***************************************************************************)
(* Claims.                                                                 *)
(***************************************************************************)

\* C1: to_title_case is idempotent: applying it to its own result changes
\* nothing, whatever '(' , ')' and '-' the tokens of the string contain.
C1_NormalizeIdempotent == runs = 2 => text = prev

\* C2: migrating a document of any of the seven types a second time leaves it
\* as the first migration left it, and renames and removes nothing.
C2_MigrateIdempotent ==
    calls = 2 => /\ data = before
                 /\ last.renamed = 0
                 /\ last.removed = 0
                 /\ last.log = <<>>
\* a second migration has run on a document whose first one renamed and removed
C2_Witness ==
    /\ calls = 2
    /\ stats.properties_renamed > 0
    /\ stats.empty_fields_removed > 0

\* C4: every non-empty value a node held under a source or a target key of the
\* mapping before _rename_keys is still held by the node after it.
C4_NoValueLost ==
    calls >= 1 =>
        LET mapping == MappingOf(subject)
            old == Val(before)
            new == Val(data)
        IN \A i \in 1..Len(old) :
               (old[i][1] \in SourceKeys(mapping) \cup TargetKeys(mapping) /\ Truthy(old[i][2]))
                   => \E j \in 1..Len(new) : new[j][2] = old[i][2]

\* the empty values of the data model: the empty string, null, a zero-length node
IsEmptyValue(j) == j = Str("") \/ j = Null \/ (Tag(j) \in {"list", "dict"} /\ Len(Val(j)) = 0)
CanonicalKeys == {"english", "romanised", "hangul", "phonetic"}

\* C6: after migration a node selected by the mapping holds no renamed-to key
\* (english, romanised, hangul, phonetic) with an empty value and no source key.
C6_NoEmptyTarget ==
    calls >= 1 =>
        /\ \A k \in CanonicalKeys : HasKey(Val(data), k) => ~IsEmptyValue(GetKey(Val(data), k))
        /\ \A k \in SourceKeys(MappingOf(subject)) : ~HasKey(Val(data), k)

\* the source and target keys of the mappings a file type's method applies
MigratedKeys(file_type) ==
    LET both(mapping) == SourceKeys(mapping) \cup TargetKeys(mapping) IN
    CASE file_type = "terminology" -> both(terminology_mapping)
      [] file_type = "techniques" -> both(techniques_mapping)
      [] file_type = "linework" -> {}
      [] file_type = "patterns" -> both(pattern_mapping) \cup both(move_mapping)
      [] file_type = "stepsparring" -> both(action_mapping)
      [] file_type = "theory" -> both(theory_mapping)
      [] file_type = "vocabulary" -> both(vocabulary_mapping)

\* a JSON value without the pairs of its dicts whose key is in keys; everything
\* else (the other keys and their order, the lists and theirs, the nesting) is kept
RECURSIVE Strip(_, _)
Strip(j, keys) ==
    CASE Tag(j) = "dict" ->
             LET kept == SelectSeq(Val(j), LAMBDA pair : pair[1] \notin keys) IN
             Dict(Tuple([i \in 1..Len(kept) |-> <<kept[i][1], Strip(kept[i][2], keys)>>]))
      [] Tag(j) = "list" -> List(Tuple([i \in 1..Len(Val(j)) |-> Strip(Val(j)[i], keys)]))
      [] OTHER -> j

\* C7: migration leaves every key that is neither a source nor a target key of
\* the applied mapping as it was (keys, values, relative order), keeps every
\* list's length and element order, and moves no node to another parent or depth.
C7_StructurePreserved ==
    calls >= 1 => Strip(data, MigratedKeys(subject)) = Strip(before, MigratedKeys(subject))
\* a migration renamed a key in a list of two nodes that differ in an unrelated key
C7_Witness ==
    /\ calls = 1
    /\ subject = "terminology"
    /\ last.renamed > 0
    /\ HasKey(Val(data), "terminology")
    /\ LET terms == Val(GetKey(Val(data), "terminology")) IN
       /\ Len(terms) = 2
       /\ Val(terms[1]) = << <<"id", Str("a")>>, <<"phonetic", Str("a")>> >>
       /\ Val(terms[2]) = << <<"id", Str("")>> >>

\* C8: detect_file_type returns the type of the first pair, in the order
\* Terminology, Techniques, LineWork, Patterns, StepSparring, Theory,
\* VocabularyBuilder, whose segment occurs in the path, 'unknown' when none
\* occurs, and the same type on every call with the same path.
Segments ==
    << <<"/Terminology/", "terminology">>, <<"/Techniques/", "techniques">>,
       <<"/LineWork/", "linework">>, <<"/Patterns/", "patterns">>,
       <<"/StepSparring/", "stepsparring">>, <<"/Theory/", "theory">>,
       <<"/VocabularyBuilder/", "vocabulary">> >>
Occurs(i, p) ==
    \E a \in 1..Len(p) : \E b \in a..Len(p) : SubSeq(p, a, b) = Segments[i][1]
FirstMatch(p) ==
    IF \E i \in 1..Len(Segments) : Occurs(i, p)
    THEN Segments[CHOOSE i \in 1..Len(Segments) :
                      Occurs(i, p) /\ \A j \in 1..(i - 1) : ~Occurs(j, p)][2]
    ELSE "unknown"
C8_FirstMatchWins ==
    \A k \in 1..Len(detections) : detections[k] = FirstMatch(file_path)
\* two calls were made on a path that holds a later pair's segment before an
\* earlier pair's
C8_Witness ==
    /\ Len(detections) = 2
    /\ file_path = "/Content/Theory/Patterns/a.json"
    /\ detections[2] = "patterns"

\* C3: a stage writes a document back to its store only if the stage changed
\* it; here for process_file (not dry-run): every write it issues is for a
\* document that differs from the one the run found.
C3_WriteOnlyIfChanged ==
    \A w \in 1..Len(written) : files[written[w]].doc # initial[written[w]].doc

\* C9: for a document whose path matches no known type process_file reports
\* failure, renames and removes nothing and does not write the document, and
\* process_all goes on to the remaining documents.
C9_UnknownTypeSkipped ==
    /\ \A k \in 1..Len(results) :
           FirstMatch(results[k].path) = "unknown" =>
               /\ ~results[k].success
               /\ results[k].renamed = 0
               /\ results[k].removed = 0
               /\ files[results[k].path] = initial[results[k].path]
               /\ \A w \in 1..Len(written) : written[w] # results[k].path
    /\ pc = "done" => {results[k].path : k \in 1..Len(results)} = DOMAIN initial
\* a run has ended in which a document of no known type, holding legacy keys,
\* came before a document that was migrated and written
C9_Witness ==
    /\ pc = "done"
    /\ Len(results) = 2
    /\ FirstMatch(results[1].path) = "unknown"
    /\ initial[results[1].path] = File(LegacyDoc("terminology"))
    /\ results[2].success
    /\ results[2].renamed > 0
    /\ written = <<results[2].path>>

\* the documents of the store that do not parse
Malformed == {q \in DOMAIN initial : ~initial[q].parses}
\* a document of a known type that parses and holds its type's collection
WellFormed(q) ==
    /\ initial[q].parses
    /\ FirstMatch(q) # "unknown"
    /\ Tag(initial[q].doc) = "dict"
    /\ HasKey(Val(initial[q].doc), CollectionKey(FirstMatch(q)))
    /\ Tag(GetKey(Val(initial[q].doc), CollectionKey(FirstMatch(q)))) = "list"
\* the legacy keys of a file type
LegacyKeys(file_type) ==
    CASE file_type = "terminology" -> SourceKeys(terminology_mapping)
      [] file_type = "techniques" -> SourceKeys(techniques_mapping)
      [] file_type = "linework" -> {}
      [] file_type = "patterns" -> SourceKeys(pattern_mapping) \cup SourceKeys(move_mapping)
      [] file_type = "stepsparring" -> SourceKeys(action_mapping)
      [] file_type = "theory" -> SourceKeys(theory_mapping)
      [] file_type = "vocabulary" -> SourceKeys(vocabulary_mapping)
\* some dict of a JSON value has a key in keys
RECURSIVE HoldsKey(_, _)
HoldsKey(j, keys) ==
    CASE Tag(j) = "dict" ->
             \E i \in 1..Len(Val(j)) : Val(j)[i][1] \in keys \/ HoldsKey(Val(j)[i][2], keys)
      [] Tag(j) = "list" -> \E i \in 1..Len(Val(j)) : HoldsKey(Val(j)[i], keys)
      [] OTHER -> FALSE

\* C10: when exactly one document of a batch of N does not parse and the
\* others are valid, process_all reports every valid document successful
\* (and, unless dry-run, has stored it migrated), and reports exactly one
\* failure, the malformed document, wherever it stands in the batch.
C10_BatchResilience ==
    (/\ pc = "done"
     /\ Cardinality(Malformed) = 1
     /\ \A q \in DOMAIN initial \ Malformed : WellFormed(q))
        => /\ summary.total = Cardinality(DOMAIN initial)
           /\ summary.successful = Cardinality(DOMAIN initial) - 1
           /\ summary.failed = 1
           /\ Len(summary.failures) = 1
           /\ summary.failures[1].path \in Malformed
           /\ \A q \in Malformed : files[q] = initial[q]
           /\ \A k \in 1..Len(results) :
                  results[k].path \notin Malformed =>
                      /\ results[k].success
                      /\ ~dry_run => /\ files[results[k].path].parses
                                     /\ ~HoldsKey(files[results[k].path].doc,
                                                  LegacyKeys(FirstMatch(results[k].path)))
                                     /\ \E w \in 1..Len(written) : written[w] = results[k].path
\* a run has ended on three documents, the second of which does not parse and
\* the other two of which held legacy keys
C10_Witness ==
    /\ pc = "done"
    /\ ~dry_run
    /\ Len(results) = 3
    /\ Malformed = {results[2].path}
    /\ WellFormed(results[1].path) /\ results[1].renamed > 0
    /\ WellFormed(results[3].path) /\ results[3].renamed > 0

\* the numbers of the moves of the Chon-Ji and Dan-Gun patterns of a Patterns
\* document whose technique is a key of the split table
SplitMoves(doc) ==
    LET ps == Val(GetKey(Val(doc), "patterns")) IN
    UNION {{GetKey(Val(Val(GetKey(Val(ps[i]), "moves"))[j]), "move_number") :
               j \in {k \in 1..Len(Val(GetKey(Val(ps[i]), "moves"))) :
                          InSplitTable(GetKey(Val(Val(GetKey(Val(ps[i]), "moves"))[k]), "technique"))}} :
              i \in {k \in 1..Len(ps) :
                         GetKey(Val(ps[k]), "name") \in {Str("Chon-Ji"), Str("Dan-Gun")}}}

\* C5: run after the schema migration, the corrections still take effect:
\* apply_corrections of the Chon-Ji/Dan-Gun corrector splits every move of a
\* Chon-Ji or Dan-Gun pattern whose technique is a key of the split table, and
\* the pattern updater finds every pattern of its table that a file holds and
\* applies the pattern's rows.
C5_CorrectionsAfterMigration ==
    (Len(stages) >= 1 /\ stages[1].phase = "done") =>
        /\ (stages[1].stage = "chon_ji" /\ initial[stages[1].path].parses) =>
               \A n \in SplitMoves(initial[stages[1].path].doc) :
                   \E e \in 1..Len(stages[1].corrections) :
                       /\ stages[1].corrections[e].move = n
                       /\ stages[1].corrections[e].field = "technique"
        /\ (stages[1].stage = "updater") =>
               \A k \in 1..Len(PatternNames(corrections, {})) :
                   (\E q \in DOMAIN initial :
                        HoldsPattern(initial[q],
                                     normalize_pattern_name(PatternNames(corrections, {})[k])))
                       => \E e \in 1..Len(stages[1].log) :
                              /\ stages[1].log[e][1] = PatternNames(corrections, {})[k]
                              /\ stages[1].log[e][2] = "applied"

\* C11: a document that parses, is of a known type and lacks the top-level
\* collection of that type is skipped: process_file reports failure for it,
\* and the document is not written and stays as the run found it.
C11_MissingCollectionSkipped ==
    \A k \in 1..Len(results) :
        (/\ initial[results[k].path].parses
         /\ FirstMatch(results[k].path) # "unknown"
         /\ Tag(initial[results[k].path].doc) = "dict"
         /\ ~HasKey(Val(initial[results[k].path].doc), CollectionKey(FirstMatch(results[k].path))))
            => /\ ~results[k].success
               /\ files[results[k].path] = initial[results[k].path]
               /\ \A w \in 1..Len(written) : written[w] # results[k].path

\* C12: a row of the correction table with a non-integer Move or without a
\* required column is rejected on its own: the run is not aborted, and every
\* row that load_corrections can read is loaded under its key.
C12_MalformedRowRejected ==
    /\ run # "failed"
    /\ run \in {"loaded", "applied", "complete"} =>
           \A i \in 1..Len(DictReader(csv_file)) :
               ~RowRaises(DictReader(csv_file)[i])
                   => HasKey(corrections, RowKey(DictReader(csv_file)[i]))

\* the move index of a key of the table
MoveOfKey(key) == SubSeq(key, Find(key, "_") + 1, Len(key))
\* the moves of the patterns named json_name in the files of a store, as
\* <<path, pattern index, move index>>
MovesOf(store, json_name) ==
    {x \in UNION {{<<q, i, j>> : i \in 1..2, j \in 1..2} : q \in DOMAIN store} :
        /\ store[x[1]].parses
        /\ x[2] <= Len(Val(GetKey(Val(store[x[1]].doc), "patterns")))
        /\ GetKey(Val(Val(GetKey(Val(store[x[1]].doc), "patterns"))[x[2]]), "name") = Str(json_name)
        /\ x[3] <= Len(Val(GetKey(Val(Val(GetKey(Val(store[x[1]].doc), "patterns"))[x[2]]), "moves")))}
\* the move at <<path, pattern index, move index>>, as its pairs
MoveAt(store, x) ==
    Val(Val(GetKey(Val(Val(GetKey(Val(store[x[1]].doc), "patterns"))[x[2]]), "moves"))[x[3]])
\* the moves a key of the table addresses
Addressed(store, key) ==
    {x \in MovesOf(store, Replace(PatternOfKey(key), " ", "-")) :
        /\ HasKey(MoveAt(store, x), "move_number")
        /\ Format(GetKey(MoveAt(store, x), "move_number")) = MoveOfKey(key)}
\* the keys of the table that address no move
Unaddressed == {k \in 1..Len(corrections) : Addressed(initial, corrections[k][1]) = {}}

\* C13: once apply_corrections has run, a correction whose pattern no file
\* holds is logged as not found, the corrections that address no move are
\* counted as not applied by generate_report, and every correction that
\* addresses a move has been applied to it: the move holds the five
\* standardized values of the correction.
C13_LookupFailureSkipped ==
    /\ run \in {"applied", "complete"} =>
           \A k \in 1..Len(corrections) :
               /\ MovesOf(initial, Replace(PatternOfKey(corrections[k][1]), " ", "-")) = {}
                      => \E e \in 1..Len(stages[1].log) :
                             /\ stages[1].log[e][1] = PatternOfKey(corrections[k][1])
                             /\ stages[1].log[e][2] = "not found"
               /\ \A x \in Addressed(initial, corrections[k][1]) :
                      \A f \in {"direction", "movement", "stance", "technique", "target"} :
                          /\ HasKey(MoveAt(files, x), f)
                          /\ GetKey(MoveAt(files, x), f) = Str(standardize_values(corrections[k][2])[f])
    /\ run = "complete" =>
           /\ report.updates_applied = Len(corrections) - Cardinality(Unaddressed)
           /\ report.not_applied = IF Unaddressed = {} THEN <<>> ELSE <<Cardinality(Unaddressed)>>
\* a run has ended in which the first pattern of the table was in no file and
\* the second one was found and its move corrected
C13_Witness ==
    /\ run = "complete"
    /\ Len(corrections) = 2
    /\ Len(stages[1].log) = 2
    /\ stages[1].log[1][2] = "not found"
    /\ stages[1].log[2][2] = "applied"
    /\ Addressed(initial, corrections[2][1]) # {}
    /\ \E x \in Addressed(initial, corrections[2][1]) : MoveAt(files, x) # MoveAt(initial, x)
    /\ report.not_applied = <<1>>

\* the split table as the source writes it: technique, bare technique, section
C14_Table ==
    {<<"Low Outer Forearm Block", "Outer Forearm Block", "Low Section">>,
     <<"Middle Obverse Punch", "Obverse Punch", "Middle Section">>,
     <<"High Obverse Punch", "Obverse Punch", "High Section">>,
     <<"Middle Inner Forearm Block", "Inner Forearm Block", "Middle Section">>,
     <<"High Obverse Block", "Outer Forearm Block", "High Section">>,
     <<"Rising Block", "Forearm Rising Block", "High Section">>}

\* C14: decomposer hit: for a technique that is a key of the split table,
\* _split_technique_target returns the bare technique and the target section
\* of the table whatever the incoming target is, the section being one of
\* 'Low Section', 'Middle Section', 'High Section'; ('Low Outer Forearm
\* Block', '') gives ('Outer Forearm Block', 'Low Section').
C14_DecomposerHit ==
    \A k \in 1..Len(splits) :
        /\ \A row \in C14_Table :
               splits[k].technique = Str(row[1])
                   => /\ splits[k].new_technique = Str(row[2])
                      /\ splits[k].new_target = Str(row[3])
                      /\ splits[k].new_target
                             \in {Str("Low Section"), Str("Middle Section"), Str("High Section")}
        /\ (splits[k].technique = Str("Low Outer Forearm Block") /\ splits[k].current_target = Str(""))
               => /\ splits[k].new_technique = Str("Outer Forearm Block")
                  /\ splits[k].new_target = Str("Low Section")
\* a technique of the table has been split while the move held another target
\* than the one the table gives
C14_Witness ==
    \E k \in 1..Len(splits) :
        /\ \E row \in C14_Table : splits[k].technique = Str(row[1])
        /\ Truthy(splits[k].current_target)
        /\ splits[k].current_target # splits[k].new_target
        /\ splits[k].new_technique # splits[k].technique

\* the section a target names, whatever its case, or the target itself
C15_Section(target) ==
    IF target \in {Str(""), Str("null"), Null} THEN target
    ELSE IF Lower(Val(target)) \in {"lower section", "low section"} THEN Str("Low Section")
    ELSE IF Lower(Val(target)) \in {"middle section", "solar plexus"} THEN Str("Middle Section")
    ELSE IF Lower(Val(target)) \in {"upper section", "high section", "head level"}
         THEN Str("High Section")
    ELSE target

\* C15: decomposer miss: for a technique that is not a key of the split
\* table, _split_technique_target returns the technique unchanged, and as
\* target the section the incoming target names case-insensitively, or the
\* incoming target unchanged when it names none (the empty string and 'null'
\* included); ('Front Kick', 'middle section') gives ('Front Kick', 'Middle
\* Section').
C15_DecomposerMiss ==
    \A k \in 1..Len(splits) :
        /\ (\A row \in C14_Table : splits[k].technique # Str(row[1]))
               => /\ splits[k].new_technique = splits[k].technique
                  /\ splits[k].new_target = C15_Section(splits[k].current_target)
        /\ (splits[k].technique = Str("Front Kick") /\ splits[k].current_target = Str("middle section"))
               => /\ splits[k].new_technique = Str("Front Kick")
                  /\ splits[k].new_target = Str("Middle Section")
\* a technique that is no key of the table came with a synonym written in
\* another case than the listed one, and the target was standardized
C15_Witness ==
    \E k \in 1..Len(splits) :
        /\ \A row \in C14_Table : splits[k].technique # Str(row[1])
        /\ splits[k].current_target = Str("Solar Plexus")
        /\ splits[k].new_target = Str("Middle Section")
        /\ splits[k].new_technique = splits[k].technique

\* the first ')' of s after position o, 0 if there is none
C16_Close(s, o) ==
    IF \E c \in o + 1..Len(s) : Ch(s, c) = ")"
    THEN CHOOSE c \in o + 1..Len(s) : Ch(s, c) = ")" /\ \A d \in o + 1..c - 1 : Ch(s, d) # ")"
    ELSE 0
\* s is one token with a parenthetical span: a prefix of one word at most
\* (and the space after it), the span, whose interior is words separated by
\* single spaces, and a suffix without whitespace
C16_Parenthetical(s) ==
    /\ Contains(s, "(")
    /\ C16_Close(s, Find(s, "(")) # 0
    /\ LET o == Find(s, "(")
           c == C16_Close(s, o)
           pre == SubSeq(s, 1, o - 1)
           interior == SubSeq(s, o + 1, c - 1)
           post == SubSeq(s, c + 1, Len(s))
       IN /\ ~Contains(pre, ")") /\ ~Contains(pre, "-")
          /\ \/ pre = ""
             \/ Len(Split(pre)) = 1 /\ pre \in {Join(Split(pre)), Join(Split(pre)) \o " "}
          /\ interior = Join(Split(interior))
          /\ ~Contains(interior, "-")
          /\ ~Contains(post, " ")

\* C16: on a text with a parenthetical span, a span whose interior contains
\* whitespace included, to_title_case lower-cases the whole interior of the
\* span, capitalizes the prefix before '(' and keeps the suffix after ')' as
\* it is; "grab (opponent's head)" becomes "Grab (opponent's head)".
C16_ParentheticalLowered ==
    /\ (runs >= 1 /\ C16_Parenthetical(prev)) =>
           LET o == Find(prev, "(")
               c == C16_Close(prev, o)
           IN text = Capitalize(SubSeq(prev, 1, o - 1)) \o "("
                         \o Lower(SubSeq(prev, o + 1, c - 1)) \o ")"
                         \o SubSeq(prev, c + 1, Len(prev))
    /\ (runs >= 1 /\ prev = "grab (opponent's head)") => text = "Grab (opponent's head)"

\* the change entries logged for a field of the move a key addresses
C17_Entries(key, f) ==
    {e \in 1..Len(stages[1].changes) :
        /\ stages[1].changes[e].pattern = PatternOfKey(key)
        /\ Format(stages[1].changes[e].move) = MoveOfKey(key)
        /\ stages[1].changes[e].field = f}
\* the correction of the example: Dan-Gun move 4 with 'High Obverse Punch'
C17_Example ==
    [direction |-> "N", movement |-> "-", stance |-> "Walking Stance",
     technique |-> "High Obverse Punch", target |-> "High Section"]

\* C17: when PatternUpdater applies a correction to a move, it logs a change
\* for a field exactly when the value the move held differs from the
\* standardized value of the correction (a field the move lacks is read as
\* '', as move.get(field, '') reads it): one entry, with the old and the new
\* value, for a field that changed, and none for a field that already held
\* the value.  Correcting the technique 'High Observe Punch' of Dan-Gun
\* move 4, its other fields being equal already, logs exactly one entry and
\* stores 'High Obverse Punch'.
C17_ChangeLoggedIffChanged ==
    run \in {"applied", "complete"} =>
        /\ \A e \in 1..Len(stages[1].changes) :
               stages[1].changes[e].old # stages[1].changes[e].new
        /\ \A k \in 1..Len(corrections) :
               \A x \in Addressed(initial, corrections[k][1]) :
                   /\ \A f \in {"direction", "movement", "stance", "technique", "target"} :
                          IF GetOr(MoveAt(initial, x), f, Str(""))
                                 # Str(standardize_values(corrections[k][2])[f])
                          THEN /\ Cardinality(C17_Entries(corrections[k][1], f)) = 1
                               /\ \A e \in C17_Entries(corrections[k][1], f) :
                                      /\ stages[1].changes[e].old
                                             = GetOr(MoveAt(initial, x), f, Str(""))
                                      /\ stages[1].changes[e].new
                                             = Str(standardize_values(corrections[k][2])[f])
                          ELSE C17_Entries(corrections[k][1], f) = {}
                   /\ (Dict(MoveAt(initial, x)) = Move4Typo /\ corrections[k][2] = C17_Example)
                          => /\ Cardinality(UNION {C17_Entries(corrections[k][1], f) :
                                     f \in {"direction", "movement", "stance", "technique", "target"}}) = 1
                             /\ C17_Entries(corrections[k][1], "technique") # {}
                             /\ GetKey(MoveAt(files, x), "technique") = Str("High Obverse Punch")
\* the correction of the example has been applied to the move with the typo:
\* one entry is logged, for the technique
C17_Witness ==
    /\ run = "complete"
    /\ Len(corrections) = 1
    /\ corrections[1][2] = C17_Example
    /\ \E x \in Addressed(initial, corrections[1][1]) :
           /\ Dict(MoveAt(initial, x)) = Move4Typo
           /\ GetKey(MoveAt(files, x), "technique") = Str("High Obverse Punch")
    /\ Len(stages[1].changes) = 1
    /\ stages[1].changes[1].field = "technique"
    /\ stages[1].changes[1].old = Str("High Observe Punch")
    /\ stages[1].changes[1].new = Str("High Obverse Punch")

\* C18: every rename and every removal of an empty field made by
\* _rename_keys appends exactly one entry to changes_log, under every run
\* configuration: the log has as many entries as there were renames and
\* removals, and it is empty exactly when the node was left as it was.
C18_EveryMutationLogged ==
    calls >= 1 =>
        /\ Len(changes_log) = stats.properties_renamed + stats.empty_fields_removed
        /\ calls = 1 => (changes_log = <<>> <=> data = before)

\* C19: a document is never partially written: when a step of the run on a
\* document raised (here update_pattern_file on a move without move_number),
\* no write was issued for that document and the store holds for it what it
\* held before the run.
C19_NeverPartiallyWritten ==
    run \in {"applied", "complete"} =>
        \A e \in 1..Len(stages[1].log) :
            stages[1].log[e][2] = "error"
                => /\ files[stages[1].log[e][4]] = initial[stages[1].log[e][4]]
                   /\ \A w \in 1..Len(written) : written[w] # stages[1].log[e][4]

\* C20: the Chon-Ji/Dan-Gun correction run is re-runnable: an
\* apply_corrections on a file immediately after another one on the same
\* file records no correction, returns False and does not write the file.
C20_Rerunnable ==
    \A k \in 2..Len(stages) :
        (/\ stages[k].stage = "chon_ji" /\ stages[k - 1].stage = "chon_ji"
         /\ stages[k].path = stages[k - 1].path
         /\ stages[k].phase = stages[k - 1].phase)
            => /\ stages[k].corrections = <<>>
               /\ ~stages[k].returned
               /\ ~stages[k].wrote

\* C21: in dry-run mode no file is modified: with dry_run set, process_file
\* and update_file never open a file for writing, whatever the files and
\* however many were processed, and they report what a live run reports: the
\* same message with the number of renamed properties, the same was_modified
\* and the same number of replacements.
C21_DryRunWritesNothing ==
    /\ dry_run =>
           /\ files = initial
           /\ written = <<>>
           /\ stats.files_written = 0
           /\ \A k \in 1..Len(results) :
                  results[k].message
                      = process_file(initial[results[k].path], results[k].path, FALSE, verbose).message
    /\ tests_dry_run =>
           /\ test_files = test_initial
           /\ test_written = <<>>
           /\ test_stats.files_modified = 0
           /\ \A k \in 1..Len(test_results) :
                  LET live == update_file(test_results[k].name,
                                          test_initial[test_results[k].name], FALSE)
                  IN /\ test_results[k].was_modified = live.was_modified
                     /\ test_results[k].replacement_count = live.replacement_count
\* both scripts have ended in dry-run mode, after a file in which properties
\* were to be renamed and two Swift files in which names were to be replaced
C21_Witness ==
    /\ dry_run /\ tests_dry_run
    /\ pc = "done"
    /\ \E k \in 1..Len(results) : results[k].success /\ results[k].renamed > 0
    /\ Len(test_results) = 2
    /\ \A k \in 1..2 : test_results[k].was_modified /\ test_results[k].replacement_count > 0

\* C22: the title-casing batch is not stopped by one bad document: whatever
\* a Terminology, Techniques or Vocabulary file holds, main gets through
\* every file it listed, and it never ends with an exception.
C22_BatchNotStopped ==
    /\ pc # "failed"
    /\ pc = "done" => Len(results) = Len(json_files)

\* the tokens the per-word loop sees in the text that was normalized, and the
\* tokens of the result
C23_Tokens == Split(HyphenPass(prev))
C23_Out == Split(text)
C23_Plain(word) == ~(Contains(word, "(") /\ Contains(word, ")"))
C23_Small(word) == Lower(word) \in small_words
C23_Canonical(word) == IsUpperCh(Ch(word, 1)) \/ Contains(word, "-")
\* what C23 says of the tokens that are not parenthetical, with the result
\* asked of a first token that holds a hyphen left as a parameter
C23_Rules(hyphenated_first_kept) ==
    (runs >= 1 /\ Len(C23_Tokens) > 0) =>
        /\ Len(C23_Out) = Len(C23_Tokens)
        /\ text = Join(C23_Out)
        /\ \A i \in 1..Len(C23_Tokens) :
              C23_Plain(C23_Tokens[i]) =>
                 /\ C23_Small(C23_Tokens[i]) =>
                       C23_Out[i] = IF i = 1 THEN Capitalize(C23_Tokens[i]) ELSE Lower(C23_Tokens[i])
                 /\ (i > 1 /\ ~C23_Small(C23_Tokens[i]) /\ C23_Canonical(C23_Tokens[i])) =>
                       C23_Out[i] = C23_Tokens[i]
                 /\ (i > 1 /\ ~C23_Small(C23_Tokens[i]) /\ ~C23_Canonical(C23_Tokens[i])) =>
                       C23_Out[i] = Capitalize(C23_Tokens[i])
                 /\ (i = 1 /\ ~C23_Small(C23_Tokens[i])) => C23_Out[i] = IF hyphenated_first_kept /\ Contains(C23_Tokens[i], "-")
                                    THEN C23_Tokens[i]
                                    ELSE Capitalize(C23_Tokens[i])
        /\ prev = "low outer forearm block" => text = "Low Outer Forearm Block"

\* C23 as stated: the rules apply in the order parenthetical, first token,
\* small word, already capitalized or hyphenated, capitalize: a small word is
\* lower-cased exactly when it is not first and capitalized when first, a
\* non-first token that starts upper-case or holds a hyphen is unchanged,
\* every other token (so every other first token) is capitalized, and the
\* tokens are rejoined with single spaces.
C23_PriorityOrder == C23_Rules(FALSE)

\* C23 amended: as above, but a first token that holds a hyphen is left as
\* the hyphen pass made it, and is capitalized otherwise.
C23_PriorityOrderAmended == C23_Rules(TRUE)
C23_Witness ==
    /\ runs = 1
    /\ Len(C23_Tokens) = 2
    /\ C23_Small(C23_Tokens[1]) /\ C23_Small(C23_Tokens[2])
    /\ C23_Tokens[2] # Lower(C23_Tokens[2])
    /\ text = "A a"

\* the start of the maximal run of \w characters that ends at i
RECURSIVE C24_RunStart(_, _)
C24_RunStart(s, i) == IF i > 1 /\ IsWordCh(Ch(s, i - 1)) THEN C24_RunStart(s, i - 1) ELSE i
\* the parts on both sides of the hyphen at i of a token are capitalized
C24_PartsAt(word, i) ==
    /\ Capitalize(SubSeq(word, C24_RunStart(word, i - 1), i - 1))
          = SubSeq(word, C24_RunStart(word, i - 1), i - 1)
    /\ Capitalize(SubSeq(word, i + 1, RunEnd(word, i + 1))) = SubSeq(word, i + 1, RunEnd(word, i + 1))

\* C24: after to_title_case every part of a hyphen-joined compound outside
\* parentheses has its first letter upper-case and the rest lower-case,
\* wherever the compound stands and however many parts it has, and
\* "3-step sparring" becomes "3-Step Sparring".
C24_CompoundsCapitalized ==
    runs >= 1 =>
        /\ \A k \in 1..Len(Split(text)) :
              (~Contains(Split(text)[k], "(") /\ ~Contains(Split(text)[k], ")")) =>
                 \A i \in 2..(Len(Split(text)[k]) - 1) :
                    (/\ Ch(Split(text)[k], i) = "-"
                     /\ IsWordCh(Ch(Split(text)[k], i - 1))
                     /\ IsWordCh(Ch(Split(text)[k], i + 1))) => C24_PartsAt(Split(text)[k], i)
        /\ prev = "3-step sparring" => text = "3-Step Sparring"

\* the value a row gives in a column, trimmed as load_corrections trims it
C25_Trimmed(column) == StrStrip(Val(GetKey(a_row, column)))

\* C25: standardize_values leaves the movement '-' and a movement that
\* carries '°' as they are, gives bare digits the suffix '°' and makes bare
\* '90' into 'Left 90°'; rewrites 'L Stance' to 'L-stance' in a stance that
\* holds it and no hyphen, and leaves every other stance; direction,
\* technique and target are the row's values trimmed; and applied to its own
\* result it changes nothing.
C25_StandardizeValues ==
    \A k \in 1..Len(standardized) :
       /\ C25_Trimmed("Movement") = "-" => standardized[k].movement = "-"
       /\ IsDigit(C25_Trimmed("Movement")) =>
             standardized[k].movement = IF C25_Trimmed("Movement") = "90" THEN "Left 90°"
                                        ELSE C25_Trimmed("Movement") \o "°"
       /\ Substring("°", C25_Trimmed("Movement")) =>
             standardized[k].movement = C25_Trimmed("Movement")
       /\ standardized[k].stance =
             IF Substring("L Stance", C25_Trimmed("Stance")) /\ ~Substring("-", C25_Trimmed("Stance"))
             THEN Replace(C25_Trimmed("Stance"), "L Stance", "L-stance")
             ELSE C25_Trimmed("Stance")
       /\ C25_Trimmed("Stance") = "Left L Stance" => standardized[k].stance = "Left L-stance"
       /\ standardized[k].direction = C25_Trimmed("Direction")
       /\ standardized[k].technique = C25_Trimmed("Technique")
       /\ standardized[k].target = C25_Trimmed("Target")
       /\ standardized[k] = standardized[1]
C25_Witness ==
    /\ Len(standardized) = 2
    /\ a_correction.movement = "90" /\ a_correction.stance = "Left L Stance"
    /\ Val(GetKey(a_row, "Technique")) = " Punch "
    /\ standardized[2].movement = "Left 90°" /\ standardized[2].stance = "Left L-stance"
    /\ standardized[2].technique = "Punch"

\* the pair of the mapping at m is the only one whose source key the node
\* held and whose target key is this one
C26_OnlySource(mapping, node, m) ==
    \A n \in 1..Len(mapping) :
       (n # m /\ mapping[n][2] = mapping[m][2]) => ~HasKey(node, mapping[n][1])

\* C26: only an empty value makes _rename_keys drop a field: a source key
\* whose value is not the empty string, not null and not zero-length (the
\* number 0 and the boolean false included) is gone after the call and its
\* value is held, unchanged, under the target key.
C26_OnlyEmptyDropped ==
    calls >= 1 =>
        \A m \in 1..Len(MappingOf(subject)) :
           (/\ MappingOf(subject)[m][1] # MappingOf(subject)[m][2]
            /\ MappingOf(subject)[m][2] \notin SourceKeys(MappingOf(subject))
            /\ HasKey(Val(before), MappingOf(subject)[m][1])
            /\ ~IsEmptyValue(GetKey(Val(before), MappingOf(subject)[m][1]))
            /\ C26_OnlySource(MappingOf(subject), Val(before), m)) =>
               /\ ~HasKey(Val(data), MappingOf(subject)[m][1])
               /\ HasKey(Val(data), MappingOf(subject)[m][2])
               /\ GetKey(Val(data), MappingOf(subject)[m][2])
                     = GetKey(Val(before), MappingOf(subject)[m][1])

\* the moves of the patterns of a file, in order
C27_Moves(content) ==
    IF ~content.parses THEN <<>>
    ELSE ConcatSeq(Tuple([p \in 1..Len(Val(GetKey(Val(content.doc), "patterns"))) |->
             Val(GetKey(Val(Val(GetKey(Val(content.doc), "patterns"))[p]), "moves"))]))
\* the entries of a ledger for one field of the move with a number
C27_Entries(log, move_number, field) ==
    LET Meant(e) == e.move = move_number /\ e.field = field IN SelectSeq(log, Meant)
\* the entries E tell how a field went from the value it had to the one it has
C27_Chain(E, had, has) ==
    IF Len(E) = 0 THEN has = had
    ELSE /\ E[1].old = had
         /\ E[Len(E)].new = has
         /\ \A i \in 1..Len(E) : E[i].old # E[i].new
         /\ \A i \in 2..Len(E) : E[i].old = E[i - 1].new
C27_Fields == {"stance", "technique", "target"}

\* C27: the ledger of a run of the Chon-Ji/Dan-Gun corrector is consistent
\* with the document: for each move and each of stance, technique and target
\* the entries {move, field, old, new} have old # new, start at the value the
\* field had (an absent field counting as ''), each carry on from the entry
\* before, and end at the value written to the file; a field without an entry
\* is as it was; and every entry is for a move of the document.
C27_LedgerConsistent ==
    (Len(stages) = 1 /\ stages[1].stage = "chon_ji" /\ pc = "start") =>
        /\ Len(C27_Moves(files[stages[1].path])) = Len(C27_Moves(initial[stages[1].path]))
        /\ \A x \in 1..Len(C27_Moves(initial[stages[1].path])) : \A f \in C27_Fields :
              C27_Chain(C27_Entries(stages[1].corrections,
                                    GetKey(Val(C27_Moves(initial[stages[1].path])[x]), "move_number"),
                                    f),
                        GetOr(Val(C27_Moves(initial[stages[1].path])[x]), f, Str("")),
                        GetOr(Val(C27_Moves(files[stages[1].path])[x]), f, Str("")))
        /\ \A e \in 1..Len(stages[1].corrections) :
              /\ stages[1].corrections[e].field \in C27_Fields
              /\ \E x \in 1..Len(C27_Moves(initial[stages[1].path])) :
                    GetKey(Val(C27_Moves(initial[stages[1].path])[x]), "move_number")
                        = stages[1].corrections[e].move
        /\ corrections_applied = stages[1].corrections
C27_Witness ==
    /\ Len(stages) = 1 /\ stages[1].stage = "chon_ji" /\ pc = "start"
    /\ Len(C27_Entries(stages[1].corrections, Num(1), "technique")) = 2
    /\ Len(C27_Entries(stages[1].corrections, Num(1), "stance")) = 1
    /\ Len(C27_Entries(stages[1].corrections, Num(1), "target")) = 1
    /\ GetKey(Val(C27_Moves(files[stages[1].path])[1]), "technique") = Str("Obverse Punch")

\* the pairs of a move but those of the five fields a correction sets
C28_Rest(pairs) ==
    LET Other(pair) == \A i \in 1..Len(correction_fields) : pair[1] # correction_fields[i]
    IN SelectSeq(pairs, Other)
\* a row of the table is for this move of the pattern with this name
C28_HasRow(name, pairs) ==
    /\ HasKey(pairs, "move_number")
    /\ \E k \in 1..Len(corrections) :
          /\ Str(Replace(PatternOfKey(corrections[k][1]), " ", "-")) = name
          /\ MoveOfKey(corrections[k][1]) = Format(GetKey(pairs, "move_number"))
\* two dicts hold the same keys in the same order, and the same values but under key
C28_SameBut(was, is, key) ==
    /\ Len(is) = Len(was)
    /\ \A i \in 1..Len(was) :
          /\ is[i][1] = was[i][1]
          /\ was[i][1] # key => is[i] = was[i]
\* the moves of a pattern: only the five fields of the moves with a row differ
C28_Moves(name, was, is) ==
    /\ Len(is) = Len(was)
    /\ \A j \in 1..Len(was) :
          /\ C28_Rest(Val(is[j])) = C28_Rest(Val(was[j]))
          /\ ~C28_HasRow(name, Val(was[j])) => is[j] = was[j]
C28_Patterns(was, is) ==
    /\ Len(is) = Len(was)
    /\ \A i \in 1..Len(was) :
          /\ C28_SameBut(Val(was[i]), Val(is[i]), "moves")
          /\ C28_Moves(GetKey(Val(was[i]), "name"),
                       Val(GetKey(Val(was[i]), "moves")), Val(GetKey(Val(is[i]), "moves")))

\* C28: once the updater has applied the table, a file differs from what it
\* held only in the fields direction, movement, stance, technique and target
\* of moves whose pattern and move_number have a row: the other fields of
\* those moves, the moves without a row, the other patterns and the rest of
\* the document are as they were.
C28_OnlyFiveFields ==
    run \in {"applied", "complete"} =>
        \A q \in DOMAIN initial :
            IF ~initial[q].parses THEN files[q] = initial[q]
            ELSE /\ files[q].parses
                 /\ C28_SameBut(Val(initial[q].doc), Val(files[q].doc), "patterns")
                 /\ C28_Patterns(Val(GetKey(Val(initial[q].doc), "patterns")),
                                 Val(GetKey(Val(files[q].doc), "patterns")))
\* a row changed move 4 of Dan-Gun, and a file of two patterns was written
\* with a row for one of them only
C28_Witness ==
    /\ run = "applied"
    /\ Len(written) = 2
    /\ updates_applied = 2
    /\ \E q \in DOMAIN files :
          /\ Len(Val(GetKey(Val(files[q].doc), "patterns"))) = 2
          /\ files[q].doc # initial[q].doc
          /\ Val(GetKey(Val(files[q].doc), "patterns"))[2]
                = Val(GetKey(Val(initial[q].doc), "patterns"))[2]
    /\ \E q \in DOMAIN files :
          /\ Len(Val(GetKey(Val(files[q].doc), "patterns"))) = 1
          /\ files[q].doc # initial[q].doc

\* the technique of a move is a key of the romanization table
C29_Keyed(pairs) ==
    /\ HasKey(pairs, "technique")
    /\ Tag(GetKey(pairs, "technique")) = "str"
    /\ HasKey(korean_mapping, Val(GetKey(pairs, "technique")))
\* the table's value for the technique of a move
C29_Table(pairs) == Str(GetKey(korean_mapping, Val(GetKey(pairs, "technique"))))
\* the pairs of a move but korean_technique
C29_Rest(pairs) == LET Other(pair) == pair[1] # "korean_technique" IN SelectSeq(pairs, Other)
\* the corrections recorded for the move with a number
C29_For(entries, move_number) ==
    LET Meant(e) == e.move = move_number IN SelectSeq(entries, Meant)
\* what C29 says of a move: was before the call, is after it
C29_Move(entries, was, is) ==
    /\ C29_Keyed(was) =>
          /\ GetOr(is, "korean_technique", Str("")) = C29_Table(was)
          /\ C29_Rest(is) = C29_Rest(was)
          /\ C29_For(entries, GetKey(was, "move_number")) =
                IF GetOr(was, "korean_technique", Str("")) # C29_Table(was)
                THEN <<[pattern |-> Str("Chon-Ji"), move |-> GetKey(was, "move_number"),
                        english_technique |-> GetKey(was, "technique"),
                        old_korean |-> GetOr(was, "korean_technique", Str("")),
                        new_korean |-> C29_Table(was)]>>
                ELSE <<>>
    /\ ~C29_Keyed(was) => is = was /\ C29_For(entries, GetKey(was, "move_number")) = <<>>

\* C29: after correct_korean_romanizations on a pattern file (a file that
\* parses into patterns of moves, so that the call does not end in its
\* except branch) every move whose technique is a key of the table has the
\* table's value as korean_technique, every other move is unchanged, one
\* correction is recorded for each move whose korean_technique differed and
\* none for the others; and whatever the file, it is written only if a
\* correction was recorded for it.
C29_KoreanCorrected ==
    /\ \A k \in 1..Len(results) :
          /\ (\E w \in 1..Len(written) : written[w] = results[k].path)
                => Len(results[k].corrections) >= 1
          /\ results[k].corrections = <<>> => files[results[k].path] = initial[results[k].path]
          /\ ~results[k].raised =>
                /\ Len(C27_Moves(files[results[k].path])) = Len(C27_Moves(initial[results[k].path]))
                /\ \A x \in 1..Len(C27_Moves(initial[results[k].path])) :
                      C29_Move(results[k].corrections,
                               Val(C27_Moves(initial[results[k].path])[x]),
                               Val(C27_Moves(files[results[k].path])[x]))
    /\ Len(corrections_applied) >= Len(written)
C29_Witness ==
    /\ pc = "done"
    /\ Len(results) = 2
    /\ ~results[1].raised /\ results[1].corrections = <<>>
    /\ ~results[2].raised /\ Len(results[2].corrections) = 1
    /\ results[2].corrections[1].old_korean = Str("Jirugi")
    /\ written = <<results[2].path>>
    /\ summary.total_corrections = 1

\* C30: LineWorkProcessor.to_title_case honours its special-case table: when
\* the text it is given contains a key of the table, the text it returns
\* contains the spelling the table maps the key to.
C30_SpecialCasesHonoured ==
    runs >= 1 =>
        \A i \in 1..Len(special_cases) :
            Substring(special_cases[i][1], prev) => Substring(special_cases[i][2], text)

====
